---- MODULE Spec2Model ----
(***************************************************************************)
(* Model of the voice transcription backend: the shared ParakeetTranscriber *)
(* engine (backend/core/transcriber.py) and the streaming websocket session *)
(* (backend/api/websocket.py).                                              *)
(***************************************************************************)
EXTENDS Integers, Sequences, FiniteSets, TLC

\* ------------------------------------------------------------------ bounds
\* Number of concurrent load_model() callers.
NCallers == 2
\* How many times one caller may call load_model().
MaxCalls == 2
\* How many times the direct caller may call transcribe_audio().
MaxApiCalls == 1
\* A session's client first sends at most Prefix short chunks, then at most
\* MaxMsgs messages of any kind; at most MaxInbox messages wait unread.
Prefix == 7
MaxMsgs == 3
MaxInbox == 1
\* A backend result under conversion has at most MaxTokens tokens in its flat
\* list, or at most MaxSentences sentences.
MaxTokens == 3
MaxSentences == 2
\* Between two conversions of the same backend result, transcribe_audio is
\* called at most MaxBetween times on other results.
MaxBetween == 1

Callers == 1..NCallers
\* One caller of transcribe_audio() outside any session.
ApiCallers == {"api"}
Sessions == {"s1"}

None == "None"
\* asyncio.Lock in its unlocked state: no caller owns it.
NoHolder == 0

\* ------------------------------------------------------------------ state
VARIABLES
    is_loaded,          \* ParakeetTranscriber._is_loaded
    model,              \* ParakeetTranscriber._model: None or "real"
    lockHolder,         \* owner of ParakeetTranscriber._lock, or NoHolder
    waiters,            \* FIFO of callers suspended in _lock.acquire()
    lpc,                \* per load_model() caller: where it is
    lcalls,             \* per caller: number of load_model() calls made
    loadRuns,           \* per caller: runs of _load made by its current call
    observed,           \* per caller: ModelState seen when its current call arrived
    cause,              \* per caller: how its last run of _load ended
    apc,                \* per direct transcribe_audio() caller: where it is
    ainput,             \* per direct caller: the audio_data of its call
    ares,               \* per direct caller: outcome of its last call
    acalls,             \* per direct caller: number of calls made
    backendRuns,        \* number of _transcribe jobs handed to the executor
    spc,                \* per session: where websocket_transcribe is
    accumulated_audio,  \* per session: the chunks appended, as sample counts
    last_partial_text,  \* per session: text of the last partial sent
    events,             \* per session: the JSON events sent, in order
    passes,             \* per session: the transcribe_audio calls made, in order
    ended,              \* per session: why the handler returned, or None
    inbox,              \* per session: messages sent and not yet received
    sent,               \* per session: number of messages the client sent
    freeSent,           \* per session: how many of them after the prefix
    connected,          \* per session: the client has not disconnected
    script,             \* per session: what its scripted client has yet to send
    result,             \* transcribe_audio: what _transcribe returned, to be converted
    audio_data,         \* transcribe_audio: the array that result was generated from
    returned,           \* transcribe_audio: how the conversions of result ended, in order
    between             \* transcribe_audio: how the conversions of other results ended

engineVars == <<is_loaded, model, lockHolder, waiters>>
loadVars == <<lpc, lcalls, loadRuns, observed, cause>>
apiVars == <<apc, ainput, ares, acalls>>
serverVars == <<spc, accumulated_audio, last_partial_text, events, passes, ended>>
clientVars == <<sent, freeSent, connected, script>>
sessionVars == <<serverVars, inbox, clientVars>>
convertVars == <<result, audio_data, returned, between>>
otherVars == <<apiVars, backendRuns, sessionVars, convertVars>>
vars == <<engineVars, loadVars, apiVars, backendRuns, sessionVars, convertVars>>

\* ------------------------------------------------------------ the engine
\* The spec's ModelState, read off the engine: Loaded once _is_loaded is set,
\* Loading while a caller holds the lock on its way to set it.
ModelState ==
    IF is_loaded THEN "Loaded"
    ELSE IF lockHolder # NoHolder THEN "Loading"
    ELSE "Unloaded"

\* How a run of _load can end: the imports and from_pretrained succeed, an
\* import fails, or from_pretrained fails with any other exception.
LoadCauses == {"ok", "ImportError", "OtherError"}

\* _load() without its except clause: a failed import is raised too.
LoadRoutineNoFallback(c) ==
    IF c = "ok" THEN [raised |-> FALSE, model |-> "real"]
    ELSE [raised |-> TRUE, model |-> None]

\* _load(): the handle it returns, or that it raises.
LoadRoutine(c) ==
    CASE c = "ok" -> [raised |-> FALSE, model |-> "real"]
      [] c = "ImportError" -> [raised |-> FALSE, model |-> None]
      [] OTHER -> [raised |-> TRUE, model |-> None]

\* A lock that never makes a caller wait.
CanAcquireAlways == TRUE

\* asyncio.Lock.acquire() succeeds at once only when the lock is free and
\* nobody is queued for it.
CanAcquire == lockHolder = NoHolder /\ waiters = <<>>

\* _is_loaded set from the handle: "loaded" only with a real model.
LoadedFlagFromModel(m) == m # None

\* The value _is_loaded gets when the awaited _load has returned.
LoadedFlag(m) == TRUE

\* The caller c holds the lock and runs load_model's body up to its await:
\* it leaves at once when the model is loaded, and hands _load to the
\* executor otherwise.
EnterLoad(c) ==
    /\ lpc' = [lpc EXCEPT ![c] = IF is_loaded THEN "returned" ELSE "loading"]
    /\ lockHolder' = IF is_loaded THEN NoHolder ELSE c
    /\ loadRuns' = [loadRuns EXCEPT ![c] = IF is_loaded THEN 0 ELSE 1]

\* load_model() is called.
LoadCall(c) ==
    /\ lpc[c] \in {"idle", "returned", "raised"}
    /\ lcalls[c] < MaxCalls
    /\ lcalls' = [lcalls EXCEPT ![c] = @ + 1]
    /\ observed' = [observed EXCEPT ![c] = ModelState]
    /\ cause' = [cause EXCEPT ![c] = None]
    /\ IF CanAcquire
       THEN /\ EnterLoad(c)
            /\ UNCHANGED waiters
       ELSE /\ loadRuns' = [loadRuns EXCEPT ![c] = 0]
            /\ lpc' = [lpc EXCEPT ![c] = "waiting"]
            /\ waiters' = Append(waiters, c)
            /\ UNCHANGED lockHolder
    /\ UNCHANGED <<is_loaded, model>>
    /\ UNCHANGED otherVars

\* The first waiter is woken once the lock has been released.
LoadWake(c) ==
    /\ lpc[c] = "waiting"
    /\ lockHolder = NoHolder
    /\ waiters # <<>> /\ Head(waiters) = c
    /\ waiters' = Tail(waiters)
    /\ EnterLoad(c)
    /\ UNCHANGED <<is_loaded, model, lcalls, observed, cause>>
    /\ UNCHANGED otherVars

\* A load_model whose lock stays held when _load raises.
LoadFinishKeepsLock(c, why) ==
    /\ lpc[c] = "loading"
    /\ cause' = [cause EXCEPT ![c] = why]
    /\ lockHolder' = IF LoadRoutine(why).raised THEN lockHolder ELSE NoHolder
    /\ IF LoadRoutine(why).raised
       THEN /\ lpc' = [lpc EXCEPT ![c] = "raised"]
            /\ UNCHANGED <<is_loaded, model>>
       ELSE /\ lpc' = [lpc EXCEPT ![c] = "returned"]
            /\ model' = LoadRoutine(why).model
            /\ is_loaded' = LoadedFlag(LoadRoutine(why).model)
    /\ UNCHANGED <<waiters, lcalls, loadRuns, observed>>
    /\ UNCHANGED otherVars

\* The executor finishes _load; load_model resumes, or the exception leaves it.
LoadFinish(c, why) ==
    /\ lpc[c] = "loading"
    /\ cause' = [cause EXCEPT ![c] = why]
    /\ lockHolder' = NoHolder
    /\ IF LoadRoutine(why).raised
       THEN /\ lpc' = [lpc EXCEPT ![c] = "raised"]
            /\ UNCHANGED <<is_loaded, model>>
       ELSE /\ lpc' = [lpc EXCEPT ![c] = "returned"]
            /\ model' = LoadRoutine(why).model
            /\ is_loaded' = LoadedFlag(LoadRoutine(why).model)
    /\ UNCHANGED <<waiters, lcalls, loadRuns, observed>>
    /\ UNCHANGED otherVars

\* ------------------------------------------------------- audio and results
\* transcribe_audio's default sample_rate; the session never passes another.
DefaultSampleRate == 16000
\* Bytes of one float32 sample.
SampleBytes == 4
\* Samples buffered before partial passes start.
PARTIAL_THRESHOLD == 32000
\* Chunks a partial pass looks back over.
TAIL_WINDOW_CHUNKS == 8

\* A float, kept exact as a fraction.
Frac(n, d) == [num |-> n, den |-> d]
FracEq(x, y) == x.num * y.den = y.num * x.den

\* A sample array is kept as its runs: <<i, n>> stands for the n samples of
\* the i-th chunk the session appended. Runs of no samples leave no trace in
\* the array.
ChunkArray(buf, lo) ==
    SelectSeq([i \in 1..Len(buf) |-> <<i, buf[i]>>],
              LAMBDA r : r[1] >= lo /\ r[2] > 0)

RECURSIVE ArrayLen(_)
ArrayLen(a) == IF a = <<>> THEN 0 ELSE Head(a)[2] + ArrayLen(Tail(a))

\* sum(len(chunk) for chunk in accumulated_audio)
RECURSIVE TotalSamples(_)
TotalSamples(buf) == IF buf = <<>> THEN 0 ELSE Head(buf) + TotalSamples(Tail(buf))

\* The final pass given only the window of the partial passes.
ConcatLastWindow(buf) ==
    ChunkArray(buf, IF Len(buf) > TAIL_WINDOW_CHUNKS
                    THEN Len(buf) - TAIL_WINDOW_CHUNKS + 1 ELSE 1)

\* np.concatenate(accumulated_audio)
ConcatAll(buf) == ChunkArray(buf, 1)

\* The partial pass given the whole buffer.
ConcatWhole(buf) == ChunkArray(buf, 1)

\* np.concatenate(accumulated_audio[-8:])
ConcatTail(buf) ==
    ChunkArray(buf, IF Len(buf) > TAIL_WINDOW_CHUNKS
                    THEN Len(buf) - TAIL_WINDOW_CHUNKS + 1 ELSE 1)

MockText == "[Mock transcription - parakeet-mlx not installed]"
\* Texts the real backend may produce.
Texts == {"", "hello", "hello world"}

NoResult == [segments |-> <<>>, full_text |-> "", duration |-> Frac(0, 1)]

\* A mock branch that answers with no segment and no duration.
MockResultEmpty ==
    [segments |-> <<>>, full_text |-> MockText, duration |-> Frac(0, 1)]

\* The result of the mock branch of transcribe_audio.
MockResult ==
    [segments |-> <<[text |-> MockText, start |-> Frac(0, 1), end |-> Frac(1, 1)]>>,
     full_text |-> MockText,
     duration |-> Frac(1, 1)]

\* ------------------------------------------------- the result conversion
\* A str of the backend is kept as the sequence of its characters; an object
\* of the backend (the result, a sentence, a token) is a record of the
\* attributes it has, with its str() under "repr".
Whitespace == {" ", "\n"}

RECURSIVE LStrip(_)
LStrip(str) ==
    IF str # <<>> /\ Head(str) \in Whitespace THEN LStrip(Tail(str)) ELSE str

RECURSIVE RStrip(_)
RStrip(str) ==
    IF str # <<>> /\ str[Len(str)] \in Whitespace
    THEN RStrip(SubSeq(str, 1, Len(str) - 1)) ELSE str

\* str.lstrip() in the place of str.strip()
StripLeft(str) == LStrip(str)

\* str.strip()
Strip(str) == RStrip(LStrip(str))

\* Segments closed by a full stop only.
SentenceEndPeriodOnly == {"."}

\* The suffixes that close a segment: ('.', '?', '!')
SentenceEnd == {".", "?", "!"}

\* str.endswith(tuple of one-character suffixes)
EndsWith(str, suffixes) == str # <<>> /\ str[Len(str)] \in suffixes

\* ''.join(strs)
RECURSIVE Join(_)
Join(strs) == IF strs = <<>> THEN <<>> ELSE Head(strs) \o Join(Tail(strs))

\* hasattr(obj, name)
HasAttr(obj, name) == name \in DOMAIN obj
\* hasattr(obj, name) and obj.name, for a list attribute
HasSome(obj, name) == HasAttr(obj, name) /\ obj[name] # <<>>
\* The text of an object as it would be with '' for the one it lacks.
TextOfOrEmpty(obj) == IF HasAttr(obj, "text") THEN obj.text ELSE <<>>
\* obj.text if hasattr(obj, 'text') else str(obj)
TextOf(obj) == IF HasAttr(obj, "text") THEN obj.text ELSE obj.repr
\* token.start if hasattr(token, 'start') else 0.0
StartOf(token) == IF HasAttr(token, "start") THEN token.start ELSE Frac(0, 1)
\* The end of a token as it would be with 0.0 for the one it lacks.
EndOfOrZero(token, duration) == IF HasAttr(token, "end") THEN token.end ELSE Frac(0, 1)
\* token.end if hasattr(token, 'end') else duration
EndOf(token, duration) == IF HasAttr(token, "end") THEN token.end ELSE duration

TranscriptionSegment(text, start, end) == [text |-> text, start |-> start, end |-> end]

\* A fallback segment that trims its text the way the other segments do.
FallbackSegmentsTrimmed(text, duration) ==
    <<[text |-> Strip(text), start |-> Frac(0, 1), end |-> duration]>>

\* The segments of a result whose backend output has no sentences and no
\* tokens: the one fallback segment.
FallbackSegments(text, duration) ==
    <<[text |-> text, start |-> Frac(0, 1), end |-> duration]>>

\* A sentence's segment with the text as it came, blanks included.
SentenceSegmentUntrimmed(sentence, duration) ==
    LET timed == HasSome(sentence, "tokens")
    IN  TranscriptionSegment(
            TextOf(sentence),
            IF timed THEN StartOf(sentence.tokens[1]) ELSE Frac(0, 1),
            IF timed THEN EndOf(sentence.tokens[Len(sentence.tokens)], duration)
                     ELSE duration)

\* The segment of one sentence of result.sentences.
SentenceSegment(sentence, duration) ==
    LET timed == HasSome(sentence, "tokens")
    IN  TranscriptionSegment(
            Strip(TextOf(sentence)),
            IF timed THEN StartOf(sentence.tokens[1]) ELSE Frac(0, 1),
            IF timed THEN EndOf(sentence.tokens[Len(sentence.tokens)], duration)
                     ELSE duration)

\* The segment made of current_segment_tokens.
GroupSegment(group, duration) ==
    TranscriptionSegment(
        Strip(Join([i \in 1..Len(group) |-> TextOf(group[i])])),
        StartOf(group[1]),
        EndOf(group[Len(group)], duration))

\* The loop over result.tokens, from the tokens still to come and
\* current_segment_tokens, and the trailing group after it.
RECURSIVE TokenSegments(_, _, _)
TokenSegments(tokens, current, duration) ==
    IF tokens = <<>>
    THEN IF current # <<>> THEN <<GroupSegment(current, duration)>> ELSE <<>>
    ELSE LET group == Append(current, Head(tokens))
         IN  IF EndsWith(Strip(TextOf(Head(tokens))), SentenceEnd)
             THEN <<GroupSegment(group, duration)>>
                      \o TokenSegments(Tail(tokens), <<>>, duration)
             ELSE TokenSegments(Tail(tokens), group, duration)

\* The segments as they would be without the fallback segment.
SegmentsNoFallback(raw, duration) ==
    IF HasSome(raw, "sentences")
    THEN [i \in 1..Len(raw.sentences) |-> SentenceSegment(raw.sentences[i], duration)]
    ELSE IF HasSome(raw, "tokens")
    THEN TokenSegments(raw.tokens, <<>>, duration)
    ELSE <<>>

\* The segments as they would be with the last one put first.
SegmentsLastFirst(raw, duration) ==
    LET found == SegmentsNoFallback(raw, duration)
    IN  IF found = <<>> THEN FallbackSegments(TextOf(raw), duration)
        ELSE [i \in 1..Len(found) |-> found[Len(found) + 1 - i]]

\* The segments as they would be with the flat token list taken first.
SegmentsTokensFirst(raw, duration) ==
    LET found ==
            IF HasSome(raw, "tokens")
            THEN TokenSegments(raw.tokens, <<>>, duration)
            ELSE IF HasSome(raw, "sentences")
            THEN [i \in 1..Len(raw.sentences) |->
                      SentenceSegment(raw.sentences[i], duration)]
            ELSE <<>>
    IN  IF found = <<>> THEN FallbackSegments(TextOf(raw), duration) ELSE found

\* The segments of a backend result: from its sentences, else from its
\* tokens, else, or when that gave none, the one fallback segment.
Segments(raw, duration) ==
    LET found ==
            IF HasSome(raw, "sentences")
            THEN [i \in 1..Len(raw.sentences) |->
                      SentenceSegment(raw.sentences[i], duration)]
            ELSE IF HasSome(raw, "tokens")
            THEN TokenSegments(raw.tokens, <<>>, duration)
            ELSE <<>>
    IN  IF found = <<>> THEN FallbackSegments(TextOf(raw), duration) ELSE found

\* The texts of segments joined with a single space.
RECURSIVE SpacedTexts(_)
SpacedTexts(segs) ==
    IF segs = <<>> THEN <<>>
    ELSE IF Len(segs) = 1 THEN segs[1].text
    ELSE segs[1].text \o <<" ">> \o SpacedTexts(Tail(segs))

\* A conversion that rebuilds full_text from the segments when the backend
\* result has no text.
ConvertJoined(raw, a, rate) ==
    LET duration == Frac(ArrayLen(a), rate)
    IN  [segments |-> Segments(raw, duration),
         full_text |-> IF HasAttr(raw, "text") THEN raw.text
                       ELSE SpacedTexts(Segments(raw, duration)),
         duration |-> duration]

\* The TranscriptionResult made of a backend result for the array a.
Convert(raw, a, rate) ==
    LET duration == Frac(ArrayLen(a), rate)
    IN  [segments |-> Segments(raw, duration),
         full_text |-> TextOf(raw),
         duration |-> duration]

\* Python's None where a str is expected: no str has a character of more
\* than one letter.
NoneText == <<None>>

\* The conversion raises: strip() is called on the text of every sentence,
\* or else of every token, and None has no strip().
ConvertRaises(raw) ==
    IF HasSome(raw, "sentences")
    THEN \E i \in 1..Len(raw.sentences) : TextOf(raw.sentences[i]) = NoneText
    ELSE IF HasSome(raw, "tokens")
    THEN \E i \in 1..Len(raw.tokens) : TextOf(raw.tokens[i]) = NoneText
    ELSE FALSE

\* What a call of the conversion comes to: the exception, or the result.
ConvertOutcome(raw, a, rate) ==
    IF ConvertRaises(raw)
    THEN [raised |-> TRUE, error |-> "'NoneType' object has no attribute 'strip'"]
    ELSE Convert(raw, a, rate)

\* A backend result that has a text and nothing else.
FlatResult(text) == [text |-> text, repr |-> text]

\* A result whose duration is one second whatever the array.
BuildResultUnitDuration(text, a, rate) ==
    [segments |-> FallbackSegments(text, Frac(1, 1)),
     full_text |-> text,
     duration |-> Frac(1, 1)]

\* The TranscriptionResult built on the array a from a backend result that
\* has the given text and neither sentences nor tokens.
BuildResult(text, a, rate) == Convert(FlatResult(text), a, rate)

\* What a _transcribe job on the array a can do: np.abs(audio).max() raises
\* on an empty array; otherwise the backend returns a text or raises.
BackendOutcomes(a) ==
    {[raised |-> TRUE, text |-> "", error |-> e] :
        e \in IF ArrayLen(a) = 0 THEN {"zero-size array"} ELSE {"backend failure"}}
    \cup IF ArrayLen(a) = 0 THEN {}
         ELSE {[raised |-> FALSE, text |-> x, error |-> ""] : x \in Texts}

\* transcribe_audio without its readiness check.
TranscribeStartUnchecked == IF model = None THEN "mock" ELSE "dispatch"

\* Where a call of transcribe_audio goes: it raises when the model is not
\* loaded, answers from the mock branch when there is no model handle, and
\* hands _transcribe to the executor otherwise.
TranscribeStart ==
    CASE ~is_loaded -> "not_ready"
      [] model = None -> "mock"
      [] OTHER -> "dispatch"

\* ----------------------------------------- direct callers of transcribe_audio
ApiInputs == {<<>>, <<<<1, 16000>>>>, <<<<1, 32000>>>>}

ApiCall(k, a) ==
    /\ apc[k] \in {"idle", "done"}
    /\ acalls[k] < MaxApiCalls
    /\ acalls' = [acalls EXCEPT ![k] = @ + 1]
    /\ ainput' = [ainput EXCEPT ![k] = a]
    /\ CASE TranscribeStart = "not_ready" ->
              /\ apc' = [apc EXCEPT ![k] = "done"]
              /\ ares' = [ares EXCEPT ![k] =
                    [status |-> "not_ready", error |-> "Model not loaded",
                     result |-> NoResult]]
              /\ UNCHANGED backendRuns
         [] TranscribeStart = "mock" ->
              /\ apc' = [apc EXCEPT ![k] = "done"]
              /\ ares' = [ares EXCEPT ![k] =
                    [status |-> "ok", error |-> "", result |-> MockResult]]
              /\ UNCHANGED backendRuns
         [] OTHER ->
              /\ apc' = [apc EXCEPT ![k] = "inflight"]
              /\ ares' = [ares EXCEPT ![k] =
                    [status |-> "pending", error |-> "", result |-> NoResult]]
              /\ backendRuns' = backendRuns + 1
    /\ UNCHANGED <<engineVars, loadVars, convertVars, sessionVars>>

ApiDone(k, out) ==
    /\ apc[k] = "inflight"
    /\ out \in BackendOutcomes(ainput[k])
    /\ apc' = [apc EXCEPT ![k] = "done"]
    /\ ares' = [ares EXCEPT ![k] =
          IF out.raised
          THEN [status |-> "error", error |-> out.error, result |-> NoResult]
          ELSE [status |-> "ok", error |-> "",
                result |-> BuildResult(out.text, ainput[k], DefaultSampleRate)]]
    /\ UNCHANGED <<engineVars, loadVars, convertVars, sessionVars, ainput, acalls, backendRuns>>

\* ------------------------------------------------------------ the messages
NoType == "<absent>"
\* The "audio" field: absent or empty (falsy), or a string that b64decode
\* accepts or rejects and that decodes to nbytes bytes.
NoAudio == [present |-> FALSE, valid |-> TRUE, nbytes |-> 0]
BadBase64 == [present |-> TRUE, valid |-> FALSE, nbytes |-> 0]
Pcm(n) == [present |-> TRUE, valid |-> TRUE, nbytes |-> SampleBytes * n]
Ragged == [present |-> TRUE, valid |-> TRUE, nbytes |-> SampleBytes + 2]

Message(type, audio) == [type |-> type, audio |-> audio]
Stop == Message("stop", NoAudio)
Ping == Message("ping", NoAudio)
Disconnect == Message("disconnect", NoAudio)

\* The short chunk of the prefix, and the messages sent after it.
PrefixMsg == Message("audio", Pcm(1000))
FreeMsgs ==
    {Stop, Ping, Disconnect, Message("other", NoAudio),
     Message(NoType, Pcm(16000))}
    \cup {Message("audio", x) :
            x \in {NoAudio, BadBase64, Ragged, Pcm(0), Pcm(16000), Pcm(32000)}}

\* data.get("type", "audio")
MsgType(m) == IF m.type = NoType THEN "audio" ELSE m.type

\* base64.b64decode, then np.frombuffer(dtype=float32): the number of
\* samples, or that one of the two raises.
Decode(x) ==
    CASE ~x.valid -> [raised |-> TRUE, error |-> "Incorrect padding", n |-> 0]
      [] x.nbytes % SampleBytes # 0 ->
            [raised |-> TRUE, error |-> "buffer size must be a multiple of element size",
             n |-> 0]
      [] OTHER -> [raised |-> FALSE, error |-> "", n |-> x.nbytes \div SampleBytes]

\* ------------------------------------------------------------- the events
ErrorEvent(msg, code) == [error |-> msg, code |-> code]
PartialEvent(text) == [text |-> text, is_final |-> FALSE]
FinalEvent(r) ==
    [text |-> r.full_text, segments |-> r.segments, is_final |-> TRUE,
     duration |-> r.duration]
EmptyFinalEvent ==
    [text |-> "", segments |-> <<>>, is_final |-> TRUE, duration |-> Frac(0, 1)]
PongEvent == [type |-> "pong"]

IsError(e) == "code" \in DOMAIN e
IsFinal(e) == "is_final" \in DOMAIN e /\ e.is_final
IsPartial(e) == "is_final" \in DOMAIN e /\ ~e.is_final
IsPong(e) == "type" \in DOMAIN e

\* One call of transcribe_audio by a session.
Pass(kind, a, state, r) == [kind |-> kind, input |-> a, state |-> state, result |-> r]

\* ------------------------------------------------------------- the client
\* The client puts a message on the transport. It does so whatever the
\* handler is doing, also after the handler has returned.
ClientSend(s, m) ==
    /\ connected[s]
    /\ Len(inbox[s]) < MaxInbox
    /\ \/ /\ m = PrefixMsg
          /\ freeSent[s] = 0
          /\ sent[s] < Prefix
          /\ UNCHANGED freeSent
       \/ /\ m \in FreeMsgs
          /\ freeSent[s] < MaxMsgs
          /\ freeSent' = [freeSent EXCEPT ![s] = @ + 1]
    /\ sent' = [sent EXCEPT ![s] = @ + 1]
    /\ connected' = [connected EXCEPT ![s] = m # Disconnect]
    /\ inbox' = [inbox EXCEPT ![s] = Append(@, m)]
    /\ UNCHANGED <<engineVars, loadVars, convertVars, apiVars, backendRuns, serverVars, script>>

\* Sample counts of the chunks of a scripted client.
ChunkSizes == {4000 * i : i \in 1..8}
\* The scripts: three audio chunks of 40000 samples in all, then stop.
Scenarios ==
    {<<Message("audio", Pcm(a)), Message("audio", Pcm(b)),
       Message("audio", Pcm(c)), Stop>> :
        <<a, b, c>> \in {x \in ChunkSizes \X ChunkSizes \X ChunkSizes :
                            x[1] + x[2] + x[3] = 40000}}

\* The scripted client puts its next message on the transport.
ScriptSend(s) ==
    /\ connected[s]
    /\ script[s] # <<>>
    /\ Len(inbox[s]) < MaxInbox
    /\ inbox' = [inbox EXCEPT ![s] = Append(@, Head(script[s]))]
    /\ script' = [script EXCEPT ![s] = Tail(@)]
    /\ sent' = [sent EXCEPT ![s] = @ + 1]
    /\ UNCHANGED <<freeSent, connected>>
    /\ UNCHANGED <<engineVars, loadVars, convertVars, apiVars, backendRuns, serverVars>>

\* ------------------------------------------------------------ the session
\* The readiness check without its return: the error is sent and the loop
\* is entered all the same.
SessionStartNoReturn(s) ==
    /\ spc[s] = "new"
    /\ spc' = [spc EXCEPT ![s] = "recv"]
    /\ IF ~is_loaded
       THEN events' = [events EXCEPT ![s] =
                  Append(@, ErrorEvent("Model not loaded", "MODEL_NOT_READY"))]
       ELSE UNCHANGED events
    /\ UNCHANGED <<accumulated_audio, last_partial_text, passes, ended>>
    /\ UNCHANGED <<engineVars, loadVars, convertVars, apiVars, backendRuns, inbox, clientVars>>

\* The loop entered without the readiness check.
SessionStartUnchecked(s) ==
    /\ spc[s] = "new"
    /\ spc' = [spc EXCEPT ![s] = "recv"]
    /\ UNCHANGED <<events, ended>>
    /\ UNCHANGED <<accumulated_audio, last_partial_text, passes>>
    /\ UNCHANGED <<engineVars, loadVars, convertVars, apiVars, backendRuns, inbox, clientVars>>

\* websocket.accept(), then the readiness check.
SessionStart(s) ==
    /\ spc[s] = "new"
    /\ IF ~is_loaded
       THEN /\ events' = [events EXCEPT ![s] =
                  Append(@, ErrorEvent("Model not loaded", "MODEL_NOT_READY"))]
            /\ spc' = [spc EXCEPT ![s] = "closed"]
            /\ ended' = [ended EXCEPT ![s] = "not_ready"]
       ELSE /\ spc' = [spc EXCEPT ![s] = "recv"]
            /\ UNCHANGED <<events, ended>>
    /\ UNCHANGED <<accumulated_audio, last_partial_text, passes>>
    /\ UNCHANGED <<engineVars, loadVars, convertVars, apiVars, backendRuns, inbox, clientVars>>

\* Messages read while a pass is still in flight.
ReceivesAnytime(s, type) ==
    /\ spc[s] \in {"recv", "partial"}
    /\ inbox[s] # <<>>
    /\ MsgType(Head(inbox[s])) = type
    /\ inbox' = [inbox EXCEPT ![s] = Tail(@)]

\* The handler is at receive_json() and a message is there for it.
Receives(s, type) ==
    /\ spc[s] = "recv"
    /\ inbox[s] # <<>>
    /\ MsgType(Head(inbox[s])) = type
    /\ inbox' = [inbox EXCEPT ![s] = Tail(@)]

\* An exception that ends the handler without an event.
FailsSilently(s, msg) ==
    /\ spc' = [spc EXCEPT ![s] = "closed"]
    /\ ended' = [ended EXCEPT ![s] = "error"]
    /\ UNCHANGED events

\* except Exception: the error event is sent and the handler returns.
Fails(s, msg) ==
    /\ events' = [events EXCEPT ![s] = Append(@, ErrorEvent(msg, "TRANSCRIPTION_ERROR"))]
    /\ spc' = [spc EXCEPT ![s] = "closed"]
    /\ ended' = [ended EXCEPT ![s] = "error"]

\* The final event sent without leaving the loop.
FinishesStaysOpen(s, r) ==
    /\ events' = [events EXCEPT ![s] = Append(@, FinalEvent(r))]
    /\ spc' = [spc EXCEPT ![s] = "recv"]
    /\ ended' = [ended EXCEPT ![s] = "stop"]

\* The final event held back, as a partial one is, when its text is the one
\* remembered.
FinishesIfChanged(s, r) ==
    /\ events' = [events EXCEPT ![s] =
          IF r.full_text # last_partial_text[s] THEN Append(@, FinalEvent(r)) ELSE @]
    /\ spc' = [spc EXCEPT ![s] = "closed"]
    /\ ended' = [ended EXCEPT ![s] = "stop"]

\* The final event of a result is sent and the loop is left.
Finishes(s, r) ==
    /\ events' = [events EXCEPT ![s] = Append(@, FinalEvent(r))]
    /\ spc' = [spc EXCEPT ![s] = "closed"]
    /\ ended' = [ended EXCEPT ![s] = "stop"]

\* Every partial pass reported, changed text or not.
ReportsAlways(s, r) ==
    /\ spc' = [spc EXCEPT ![s] = "recv"]
    /\ last_partial_text' = [last_partial_text EXCEPT ![s] = r.full_text]
    /\ events' = [events EXCEPT ![s] = Append(@, PartialEvent(r.full_text))]
    /\ UNCHANGED ended

\* The first partial pass reported whatever its text, the later ones if the
\* text has changed.
ReportsFirst(s, r) ==
    /\ spc' = [spc EXCEPT ![s] = "recv"]
    /\ IF r.full_text # last_partial_text[s] \/ SelectSeq(events[s], IsPartial) = <<>>
       THEN /\ last_partial_text' = [last_partial_text EXCEPT ![s] = r.full_text]
            /\ events' = [events EXCEPT ![s] = Append(@, PartialEvent(r.full_text))]
       ELSE UNCHANGED <<last_partial_text, events>>
    /\ UNCHANGED ended

\* A partial pass has returned r: the partial event is sent if the text has
\* changed, and the loop goes on.
Reports(s, r) ==
    /\ spc' = [spc EXCEPT ![s] = "recv"]
    /\ IF r.full_text # last_partial_text[s]
       THEN /\ last_partial_text' = [last_partial_text EXCEPT ![s] = r.full_text]
            /\ events' = [events EXCEPT ![s] = Append(@, PartialEvent(r.full_text))]
       ELSE UNCHANGED <<last_partial_text, events>>
    /\ UNCHANGED ended

\* An engine that runs one _transcribe job at a time: a call made while the
\* job of another session is running waits.
TranscribesSerialized(s, kind, a) ==
    CASE TranscribeStart = "not_ready" ->
           /\ passes' = [passes EXCEPT ![s] = Append(@, Pass(kind, a, "raised", NoResult))]
           /\ Fails(s, "Model not loaded")
           /\ UNCHANGED <<last_partial_text, backendRuns>>
      [] TranscribeStart = "mock" ->
           /\ passes' = [passes EXCEPT ![s] = Append(@, Pass(kind, a, "done", MockResult))]
           /\ IF kind = "final"
              THEN Finishes(s, MockResult) /\ UNCHANGED last_partial_text
              ELSE Reports(s, MockResult)
           /\ UNCHANGED backendRuns
      [] OTHER ->
           /\ \A o \in DOMAIN spc : spc[o] \notin {"partial", "final"}
           /\ passes' = [passes EXCEPT ![s] = Append(@, Pass(kind, a, "pending", NoResult))]
           /\ spc' = [spc EXCEPT ![s] = kind]
           /\ backendRuns' = backendRuns + 1
           /\ UNCHANGED <<last_partial_text, events, ended>>

\* The session calls transcribe_audio(a) for a pass of the given kind.
Transcribes(s, kind, a) ==
    CASE TranscribeStart = "not_ready" ->
           /\ passes' = [passes EXCEPT ![s] = Append(@, Pass(kind, a, "raised", NoResult))]
           /\ Fails(s, "Model not loaded")
           /\ UNCHANGED <<last_partial_text, backendRuns>>
      [] TranscribeStart = "mock" ->
           /\ passes' = [passes EXCEPT ![s] = Append(@, Pass(kind, a, "done", MockResult))]
           /\ IF kind = "final"
              THEN Finishes(s, MockResult) /\ UNCHANGED last_partial_text
              ELSE Reports(s, MockResult)
           /\ UNCHANGED backendRuns
      [] OTHER ->
           /\ passes' = [passes EXCEPT ![s] = Append(@, Pass(kind, a, "pending", NoResult))]
           /\ spc' = [spc EXCEPT ![s] = kind]
           /\ backendRuns' = backendRuns + 1
           /\ UNCHANGED <<last_partial_text, events, ended>>

\* A stop that never takes the empty branch.
HasAudioAlways(buf) == TRUE

\* if accumulated_audio: a list is true when it holds a chunk, of whatever size.
HasAudio(buf) == buf # <<>>

\* A stop that empties the buffer once it has read it.
HandleStopClears(s) ==
    /\ Receives(s, "stop")
    /\ IF HasAudio(accumulated_audio[s])
       THEN Transcribes(s, "final", ConcatAll(accumulated_audio[s]))
       ELSE /\ events' = [events EXCEPT ![s] = Append(@, EmptyFinalEvent)]
            /\ spc' = [spc EXCEPT ![s] = "closed"]
            /\ ended' = [ended EXCEPT ![s] = "stop"]
            /\ UNCHANGED <<last_partial_text, passes, backendRuns>>
    /\ accumulated_audio' = [accumulated_audio EXCEPT ![s] = <<>>]
    /\ UNCHANGED <<engineVars, loadVars, convertVars, apiVars, clientVars>>

\* {"type": "stop"}
HandleStop(s) ==
    /\ Receives(s, "stop")
    /\ IF HasAudio(accumulated_audio[s])
       THEN Transcribes(s, "final", ConcatAll(accumulated_audio[s]))
       ELSE /\ events' = [events EXCEPT ![s] = Append(@, EmptyFinalEvent)]
            /\ spc' = [spc EXCEPT ![s] = "closed"]
            /\ ended' = [ended EXCEPT ![s] = "stop"]
            /\ UNCHANGED <<last_partial_text, passes, backendRuns>>
    /\ UNCHANGED <<accumulated_audio, engineVars, loadVars, convertVars, apiVars, clientVars>>

\* Partial passes held back until the chunk appended brings new samples.
HandleAudioThrottled(s) ==
    /\ Receives(s, "audio")
    /\ LET x == Head(inbox[s]).audio
           d == Decode(x)
           buf == Append(accumulated_audio[s], d.n)
       IN  IF ~x.present
           THEN UNCHANGED <<serverVars, backendRuns>>
           ELSE IF d.raised
           THEN /\ Fails(s, d.error)
                /\ UNCHANGED <<accumulated_audio, last_partial_text, passes, backendRuns>>
           ELSE /\ accumulated_audio' = [accumulated_audio EXCEPT ![s] = buf]
                /\ IF TotalSamples(buf) >= PARTIAL_THRESHOLD /\ d.n > 0
                   THEN Transcribes(s, "partial", ConcatTail(buf))
                   ELSE UNCHANGED <<spc, last_partial_text, events, passes, ended,
                                    backendRuns>>
    /\ UNCHANGED <<engineVars, loadVars, convertVars, apiVars, clientVars>>

\* {"type": "audio", ...}, or a message without a type
HandleAudio(s) ==
    /\ Receives(s, "audio")
    /\ LET x == Head(inbox[s]).audio
           d == Decode(x)
           buf == Append(accumulated_audio[s], d.n)
       IN  IF ~x.present
           THEN UNCHANGED <<serverVars, backendRuns>>
           ELSE IF d.raised
           THEN /\ Fails(s, d.error)
                /\ UNCHANGED <<accumulated_audio, last_partial_text, passes, backendRuns>>
           ELSE /\ accumulated_audio' = [accumulated_audio EXCEPT ![s] = buf]
                /\ IF TotalSamples(buf) >= PARTIAL_THRESHOLD
                   THEN Transcribes(s, "partial", ConcatTail(buf))
                   ELSE UNCHANGED <<spc, last_partial_text, events, passes, ended,
                                    backendRuns>>
    /\ UNCHANGED <<engineVars, loadVars, convertVars, apiVars, clientVars>>

\* A ping that forgets the last partial text.
HandlePingForgets(s) ==
    /\ Receives(s, "ping")
    /\ events' = [events EXCEPT ![s] = Append(@, PongEvent)]
    /\ last_partial_text' = [last_partial_text EXCEPT ![s] = ""]
    /\ UNCHANGED <<spc, accumulated_audio, passes, ended>>
    /\ UNCHANGED <<engineVars, loadVars, convertVars, apiVars, backendRuns, clientVars>>

\* {"type": "ping"}
HandlePing(s) ==
    /\ Receives(s, "ping")
    /\ events' = [events EXCEPT ![s] = Append(@, PongEvent)]
    /\ UNCHANGED <<spc, accumulated_audio, last_partial_text, passes, ended>>
    /\ UNCHANGED <<engineVars, loadVars, convertVars, apiVars, backendRuns, clientVars>>

\* A type that no branch takes answered with an error.
HandleOtherFails(s) ==
    /\ Receives(s, "other")
    /\ Fails(s, "unknown message type")
    /\ UNCHANGED <<accumulated_audio, last_partial_text, passes>>
    /\ UNCHANGED <<engineVars, loadVars, convertVars, apiVars, backendRuns, clientVars>>

\* Any other type: no branch of the loop takes it.
HandleOther(s) ==
    /\ Receives(s, "other")
    /\ UNCHANGED <<serverVars, engineVars, loadVars, convertVars, apiVars, backendRuns, clientVars>>

\* A disconnect that flushes the buffer the way stop does.
HandleDisconnectFlush(s) ==
    /\ Receives(s, "disconnect")
    /\ IF HasAudio(accumulated_audio[s])
       THEN Transcribes(s, "final", ConcatAll(accumulated_audio[s]))
       ELSE /\ spc' = [spc EXCEPT ![s] = "closed"]
            /\ ended' = [ended EXCEPT ![s] = "disconnect"]
            /\ UNCHANGED <<last_partial_text, events, passes, backendRuns>>
    /\ UNCHANGED <<accumulated_audio, engineVars, loadVars, convertVars, apiVars, clientVars>>

\* receive_json() raises WebSocketDisconnect.
HandleDisconnect(s) ==
    /\ Receives(s, "disconnect")
    /\ spc' = [spc EXCEPT ![s] = "closed"]
    /\ ended' = [ended EXCEPT ![s] = "disconnect"]
    /\ UNCHANGED <<accumulated_audio, last_partial_text, events, passes>>
    /\ UNCHANGED <<engineVars, loadVars, convertVars, apiVars, backendRuns, clientVars>>

\* The pass in flight, the last call made.
CurrentPass(s) == passes[s][Len(passes[s])]

\* The executor finishes the _transcribe job of the session's pass.
InferDone(s, out) ==
    /\ spc[s] \in {"partial", "final"}
    /\ out \in BackendOutcomes(CurrentPass(s).input)
    /\ LET p == CurrentPass(s)
           r == BuildResult(out.text, p.input, DefaultSampleRate)
       IN  IF out.raised
           THEN /\ passes' = [passes EXCEPT ![s][Len(passes[s])] = Pass(p.kind, p.input, "raised", NoResult)]
                /\ Fails(s, out.error)
                /\ UNCHANGED last_partial_text
           ELSE /\ passes' = [passes EXCEPT ![s][Len(passes[s])] = Pass(p.kind, p.input, "done", r)]
                /\ IF p.kind = "final"
                   THEN Finishes(s, r) /\ UNCHANGED last_partial_text
                   ELSE Reports(s, r)
    /\ UNCHANGED <<accumulated_audio, inbox, clientVars>>
    /\ UNCHANGED <<engineVars, loadVars, convertVars, apiVars, backendRuns>>

\* ------------------------------------------------------------------ init
InitEngine ==
    /\ between = <<>>
    /\ is_loaded = FALSE
    /\ model = None
    /\ lockHolder = NoHolder
    /\ waiters = <<>>
    /\ lpc = [c \in Callers |-> "idle"]
    /\ lcalls = [c \in Callers |-> 0]
    /\ loadRuns = [c \in Callers |-> 0]
    /\ observed = [c \in Callers |-> None]
    /\ cause = [c \in Callers |-> None]
    /\ apc = [k \in ApiCallers |-> "idle"]
    /\ ainput = [k \in ApiCallers |-> <<>>]
    /\ ares = [k \in ApiCallers |-> [status |-> "none", error |-> "", result |-> NoResult]]
    /\ acalls = [k \in ApiCallers |-> 0]
    /\ backendRuns = 0
    /\ returned = <<>>

\* The connections S have been made and their handlers have yet to run.
InitSessionsOf(S) ==
    /\ spc = [s \in S |-> "new"]
    /\ accumulated_audio = [s \in S |-> <<>>]
    /\ last_partial_text = [s \in S |-> ""]
    /\ events = [s \in S |-> <<>>]
    /\ passes = [s \in S |-> <<>>]
    /\ ended = [s \in S |-> None]
    /\ inbox = [s \in S |-> <<>>]
    /\ sent = [s \in S |-> 0]
    /\ freeSent = [s \in S |-> 0]
    /\ connected = [s \in S |-> TRUE]

InitState == InitEngine /\ InitSessionsOf(Sessions)

\* The state after construction, with clients that follow no script.
Init ==
    /\ InitState
    /\ script = [s \in Sessions |-> <<>>]
    /\ result = None
    /\ audio_data = <<>>

\* The engine under concurrent load_model() and transcribe_audio() callers.
Next ==
    \/ \E c \in Callers : LoadCall(c)
    \/ \E c \in Callers : LoadWake(c)
    \/ \E c \in Callers, why \in LoadCauses : LoadFinish(c, why)
    \/ \E k \in ApiCallers, a \in ApiInputs : ApiCall(k, a)
    \/ \E k \in ApiCallers : \E out \in BackendOutcomes(ainput[k]) : ApiDone(k, out)

Spec == Init /\ [][Next]_vars

\* The load_model() callers on their own. A _load handed to the executor
\* comes to an end, and the lock, once released, wakes its first waiter.
NextLoad ==
    \/ \E c \in Callers : LoadCall(c)
    \/ \E c \in Callers : LoadWake(c)
    \/ \E c \in Callers, why \in LoadCauses : LoadFinish(c, why)

SpecLoadFair ==
    /\ Init
    /\ [][NextLoad]_vars
    /\ \A c \in Callers :
          /\ WF_vars(LoadWake(c))
          /\ WF_vars(\E why \in LoadCauses : LoadFinish(c, why))

\* One streaming session, with one caller that calls load_model() at startup
\* and again for as long as the engine is not loaded.
NextSession ==
    \/ (~is_loaded /\ LoadCall(1))
    \/ \E why \in LoadCauses : LoadFinish(1, why)
    \/ \E s \in Sessions :
        \/ \E m \in FreeMsgs \cup {PrefixMsg} : ClientSend(s, m)
        \/ SessionStart(s)
        \/ HandleStop(s)
        \/ HandleAudio(s)
        \/ HandlePing(s)
        \/ HandleOther(s)
        \/ HandleDisconnect(s)
        \/ \E out \in BackendOutcomes(IF passes[s] = <<>> THEN <<>> ELSE CurrentPass(s).input) :
              InferDone(s, out)

SpecSession == Init /\ [][NextSession]_vars

\* One streaming session whose client follows one of the scripts.
InitScenario ==
    /\ InitState
    /\ script \in [Sessions -> Scenarios]
    /\ result = None
    /\ audio_data = <<>>

NextScenario ==
    \/ (~is_loaded /\ LoadCall(1))
    \/ \E why \in LoadCauses : LoadFinish(1, why)
    \/ \E s \in Sessions :
        \/ ScriptSend(s)
        \/ SessionStart(s)
        \/ HandleStop(s)
        \/ HandleAudio(s)
        \/ \E out \in BackendOutcomes(IF passes[s] = <<>> THEN <<>> ELSE CurrentPass(s).input) :
              InferDone(s, out)

SpecScenario == InitScenario /\ [][NextScenario]_vars

\* ------------------------------------------------- two sessions at once
Pair == {"s1", "s2"}

\* What the client of a session of the pair sends: two chunks of a second
\* and stop, or one chunk of two seconds and stop.
PairScripts ==
    {<<Message("audio", Pcm(16000)), Message("audio", Pcm(16000)), Stop>>,
     <<Message("audio", Pcm(32000)), Stop>>}

InitPair ==
    /\ InitEngine
    /\ InitSessionsOf(Pair)
    /\ script \in [Pair -> PairScripts]
    /\ result = None
    /\ audio_data = <<>>

\* Two streaming sessions on the one engine, with one caller that calls
\* load_model() at any time, before and after the engine is loaded.
NextPair ==
    \/ LoadCall(1)
    \/ \E why \in LoadCauses : LoadFinish(1, why)
    \/ \E s \in Pair :
        \/ ScriptSend(s)
        \/ SessionStart(s)
        \/ HandleStop(s)
        \/ HandleAudio(s)
        \/ \E out \in BackendOutcomes(IF passes[s] = <<>> THEN <<>> ELSE CurrentPass(s).input) :
              InferDone(s, out)

SpecPair == InitPair /\ [][NextPair]_vars

\* ------------------------------------------- the conversion on its own
SeqsUpTo(S, n) == UNION {[1..k -> S] : k \in 0..n}

\* Tokens of a backend result: with and without text, start and end, with
\* blanks around the text, with punctuation at its end or inside it, and
\* one whose offsets are out of order and beyond the audio.
TokenPool ==
    {[repr |-> <<"t">>, text |-> <<" ", "a">>, start |-> Frac(0, 1), end |-> Frac(1, 1)],
     [repr |-> <<"t">>, text |-> <<"b", ".">>, start |-> Frac(1, 1), end |-> Frac(2, 1)],
     [repr |-> <<"t">>, text |-> <<"c", "?", " ">>, start |-> Frac(2, 1), end |-> Frac(2, 1)],
     [repr |-> <<"t">>, text |-> <<"!">>],
     [repr |-> <<"t", ".">>, start |-> Frac(1, 1)],
     [repr |-> <<"t">>, text |-> <<" ">>, start |-> Frac(1, 1), end |-> Frac(1, 1)],
     [repr |-> <<"t">>, text |-> <<".", "d">>, start |-> Frac(3, 1), end |-> Frac(1, 1)],
     [repr |-> <<"t">>, text |-> NoneText, start |-> Frac(0, 1), end |-> Frac(1, 1)]}

\* The token lists a sentence comes with.
SentenceTokens ==
    {<<>>,
     <<[repr |-> <<"t">>, text |-> <<"H", "i">>, start |-> Frac(0, 1), end |-> Frac(1, 1)],
       [repr |-> <<"t">>, text |-> <<".">>, start |-> Frac(1, 1), end |-> Frac(2, 1)]>>,
     <<[repr |-> <<"t">>, text |-> <<"o", "k">>]>>,
     <<[repr |-> <<"t">>, text |-> <<"o", "k">>, start |-> Frac(1, 1)]>>,
     <<[repr |-> <<"t">>, text |-> <<"o", "k">>, start |-> Frac(3, 1), end |-> Frac(1, 1)]>>}

\* Sentences of a backend result: with and without text, with and without
\* tokens.
SentencePool ==
    {[repr |-> <<"s">>, text |-> <<" ", "H", "i", ".", " ">>, tokens |-> x] :
        x \in SentenceTokens}
    \cup {[repr |-> <<"s">>, text |-> <<"y", "o">>],
          [repr |-> <<"s", " ">>, tokens |-> <<>>],
          [repr |-> <<"s">>, text |-> NoneText]}

\* What the text attribute of a backend result can be.
FlatTexts == {<<>>, <<" ", "H", "i", ".", " ">>, NoneText}
\* A backend result with or without text.
WithText(raw) == {raw} \cup {[a \in DOMAIN raw \cup {"text"} |->
                                 IF a = "text" THEN x ELSE raw[a]] : x \in FlatTexts}

\* The backend results: sentences with or without a flat token list beside
\* them, a flat token list with no sentences or an empty list of them, or
\* neither; each with or without a text.
RawOutputs ==
    UNION {WithText(raw) : raw \in
        {[repr |-> <<"r">>, sentences |-> x] :
            x \in SeqsUpTo(SentencePool, MaxSentences)}
        \cup {[repr |-> <<"r">>, sentences |-> x, tokens |-> y] :
            x \in SeqsUpTo(SentencePool, MaxSentences), y \in SeqsUpTo(TokenPool, 1)}
        \cup {[repr |-> <<"r">>, tokens |-> y] : y \in SeqsUpTo(TokenPool, MaxTokens)}
        \cup {[repr |-> <<"r">>]}}

\* The arrays the results were generated from: 2 s and 2.5 s of audio.
ConvertInputs == {<<<<1, 32000>>>>, <<<<1, 40000>>>>}

\* _transcribe has returned result for audio_data; transcribe_audio has yet
\* to convert it.
InitConvert ==
    /\ InitState
    /\ script = [s \in Sessions |-> <<>>]
    /\ result \in RawOutputs
    /\ audio_data \in ConvertInputs

\* transcribe_audio converts result and returns, or raises.
Converts ==
    /\ returned = <<>>
    /\ returned' = <<ConvertOutcome(result, audio_data, DefaultSampleRate)>>
    /\ UNCHANGED <<engineVars, loadVars, apiVars, backendRuns, sessionVars>>
    /\ UNCHANGED <<result, audio_data, between>>

NextConvert == Converts

SpecConvert == InitConvert /\ [][NextConvert]_vars

\* ------------------------------------------- the conversion, repeated
\* The backend results converted twice: one sentence, at most one token, or
\* neither, each with or without a text.
RepeatOutputs ==
    UNION {WithText(raw) : raw \in
        {[repr |-> <<"r">>, sentences |-> <<x>>] : x \in SentencePool}
        \cup {[repr |-> <<"r">>, tokens |-> y] : y \in SeqsUpTo(TokenPool, 1)}
        \cup {[repr |-> <<"r">>]}}

\* The other calls of transcribe_audio: one that returns and one that raises.
OtherCalls ==
    {[result |-> [repr |-> <<"r">>, text |-> <<"H", "i">>],
      audio_data |-> <<<<1, 16000>>>>],
     [result |-> [repr |-> <<"r">>, tokens |-> <<[repr |-> <<"t">>, text |-> NoneText]>>],
      audio_data |-> <<<<1, 48000>>>>]}

InitRepeat ==
    /\ InitState
    /\ script = [s \in Sessions |-> <<>>]
    /\ result \in RepeatOutputs
    /\ audio_data \in ConvertInputs

\* After the first conversion of result, transcribe_audio converts another
\* backend result.
ConvertsOther(o) ==
    /\ Len(returned) = 1
    /\ Len(between) < MaxBetween
    /\ between' = Append(between,
          ConvertOutcome(o.result, o.audio_data, DefaultSampleRate))
    /\ UNCHANGED <<engineVars, loadVars, apiVars, backendRuns, sessionVars>>
    /\ UNCHANGED <<result, audio_data, returned>>

\* transcribe_audio converts result a second time, as it would with the hidden
\* state it does not have: it answers what the last other call answered.
ConvertsAgainRemembering ==
    /\ Len(returned) = 1
    /\ returned' = Append(returned,
          IF between = <<>>
          THEN ConvertOutcome(result, audio_data, DefaultSampleRate)
          ELSE between[Len(between)])
    /\ UNCHANGED <<engineVars, loadVars, apiVars, backendRuns, sessionVars>>
    /\ UNCHANGED <<result, audio_data, between>>

\* transcribe_audio converts result a second time.
ConvertsAgain ==
    /\ Len(returned) = 1
    /\ returned' = Append(returned,
          ConvertOutcome(result, audio_data, DefaultSampleRate))
    /\ UNCHANGED <<engineVars, loadVars, apiVars, backendRuns, sessionVars>>
    /\ UNCHANGED <<result, audio_data, between>>

NextRepeat ==
    \/ Converts
    \/ \E o \in OtherCalls : ConvertsOther(o)
    \/ ConvertsAgain

SpecRepeat == InitRepeat /\ [][NextRepeat]_vars

\* ---------------------------------------------------------------- claims
Rank(st) == CASE st = "Unloaded" -> 0 [] st = "Loading" -> 1 [] OTHER -> 2
Loading == {c \in Callers : lpc[c] = "loading"}

\* C1: under any interleaving of load_model() calls, _load runs in at most one
\* caller at a time and only while the engine is not loaded; a caller arriving
\* while a load is in flight waits, is not resumed before that load is over,
\* and returns without running _load once the engine is loaded; a caller
\* arriving when the engine is Loaded returns without running it.
C1_OneLoadAtATime ==
    /\ [](/\ Cardinality(Loading) <= 1
          /\ \A c \in Callers :
               /\ lpc[c] = "loading" => ~is_loaded /\ lockHolder = c /\ loadRuns[c] = 1
               /\ observed[c] = "Loaded"
                     => loadRuns[c] = 0 /\ lpc[c] \in {"waiting", "returned"})
    /\ [][\A c \in Callers :
            /\ (lcalls'[c] > lcalls[c] /\ ModelState = "Loading")
                  => lpc'[c] = "waiting" /\ loadRuns'[c] = 0
            /\ (lpc[c] = "waiting" /\ lpc'[c] # "waiting")
                  => /\ Loading = {}
                     /\ is_loaded => lpc'[c] = "returned" /\ loadRuns'[c] = 0]_vars

\* A caller that arrived during another caller's load has returned, after that
\* load succeeded, without running _load.
C1_Witness ==
    \E c \in Callers, d \in Callers :
        /\ c # d
        /\ observed[c] = "Loading" /\ lpc[c] = "returned" /\ loadRuns[c] = 0
        /\ lpc[d] = "returned" /\ loadRuns[d] = 1 /\ cause[d] = "ok"

\* C2 as stated: whatever makes _load fail, load_model() does not raise and
\* the engine ends Loaded in degraded mode.
C2_AnyFailureFallsBack ==
    \A c \in Callers :
        cause[c] \in {"ImportError", "OtherError"}
            => lpc[c] = "returned" /\ is_loaded /\ model = None

\* C2, amended: when _load fails with ImportError, load_model() returns
\* without raising and the engine is Loaded in degraded mode (is_loaded, no
\* model handle); any other failure of _load is raised to the caller of
\* load_model() and leaves the engine not loaded.
C2_ImportErrorFallsBack ==
    /\ [](\A c \in Callers :
            /\ cause[c] = "ImportError"
                  => lpc[c] = "returned" /\ is_loaded /\ model = None
            /\ cause[c] = "OtherError" => lpc[c] = "raised")
    /\ [][\A c \in Callers :
            (lpc[c] = "loading" /\ lpc'[c] = "raised")
                => ~is_loaded' /\ model' = None /\ cause'[c] = "OtherError"]_vars

\* A load has fallen back to degraded mode after a failed import.
C2_Witness ==
    \E c \in Callers :
        cause[c] = "ImportError" /\ lpc[c] = "returned" /\ is_loaded /\ model = None

\* C3 as stated: the engine state never moves backward, also when a load fails.
C3_NeverBackward == [][Rank(ModelState') >= Rank(ModelState)]_vars

\* C3, amended: the engine state moves forward one step at a time along
\* Unloaded -> Loading -> Loaded, except that a load whose _load raises (a
\* failure other than ImportError) takes the engine from Loading back to
\* Unloaded; once is_loaded is true it stays true.
C3_ForwardUnlessLoadRaises ==
    [][/\ is_loaded => is_loaded'
       /\ Rank(ModelState') > Rank(ModelState)
             => Rank(ModelState') = Rank(ModelState) + 1
       /\ Rank(ModelState') < Rank(ModelState)
             => /\ ModelState = "Loading" /\ ModelState' = "Unloaded"
                /\ \E c \in Callers :
                     /\ lpc[c] = "loading" /\ lpc'[c] = "raised"
                     /\ cause'[c] = "OtherError"]_vars

\* A load failed, leaving the engine Unloaded, and a later load succeeded.
C3_Witness ==
    /\ is_loaded
    /\ \E c \in Callers : lpc[c] = "raised" /\ cause[c] = "OtherError"

\* C4: a call of transcribe_audio made while the engine is not Loaded
\* (Unloaded, or Loading with a load in flight) fails with the not-ready
\* error, hands nothing to the backend and leaves the engine as it was.
C4_NotReadyFails ==
    [][\A k \in ApiCallers :
          (acalls'[k] > acalls[k] /\ ModelState # "Loaded")
              => /\ apc'[k] = "done"
                 /\ ares'[k].status = "not_ready"
                 /\ ares'[k].error = "Model not loaded"
                 /\ backendRuns' = backendRuns
                 /\ UNCHANGED engineVars]_vars

\* A call made during another caller's load has failed with the not-ready error.
C4_Witness ==
    \E k \in ApiCallers :
        /\ ares[k].status = "not_ready" /\ apc[k] = "done"
        /\ ModelState = "Loading" /\ Loading # {}

\* C5: a session that starts while the engine is not Loaded sends exactly one
\* event, the MODEL_NOT_READY error, and is Closed; whatever is sent to it
\* afterwards, it appends no audio, calls no inference and sends nothing more.
C5_NotReadyCloses ==
    /\ [](\A s \in Sessions :
            ended[s] = "not_ready"
                => /\ events[s] = <<ErrorEvent("Model not loaded", "MODEL_NOT_READY")>>
                   /\ spc[s] = "closed"
                   /\ accumulated_audio[s] = <<>>
                   /\ passes[s] = <<>>)
    /\ [][\A s \in Sessions :
            /\ (spc[s] = "new" /\ spc'[s] # "new" /\ ~is_loaded)
                  => ended'[s] = "not_ready"
            /\ ended[s] = "not_ready"
                  => /\ UNCHANGED <<spc[s], events[s], accumulated_audio[s], passes[s]>>
                     /\ UNCHANGED backendRuns
                     /\ Len(inbox'[s]) >= Len(inbox[s])]_vars

\* A session was refused, and a message sent to it afterwards lies unread
\* although the engine has been loaded since.
C5_Witness ==
    \E s \in Sessions :
        ended[s] = "not_ready" /\ inbox[s] # <<>> /\ is_loaded
\* The array made of the chunks i, i+1, ... of a buffer.
RECURSIVE RunsFrom(_, _)
RunsFrom(buf, i) ==
    IF i > Len(buf) THEN <<>>
    ELSE (IF buf[i] > 0 THEN <<<<i, buf[i]>>>> ELSE <<>>) \o RunsFrom(buf, i + 1)

Min(x, y) == IF x <= y THEN x ELSE y
Finals(s) == SelectSeq(events[s], IsFinal)
Partials(s) == SelectSeq(events[s], IsPartial)
Errors(s) == SelectSeq(events[s], IsError)
IsFinalPass(p) == p.kind = "final"
IsPending(p) == p.state = "pending"
IsDonePartial(p) == p.kind = "partial" /\ p.state = "done"
\* The handler of session s takes the message at the head of its transport.
Takes(s) == spc[s] = "recv" /\ inbox[s] # <<>> /\ inbox'[s] = Tail(inbox[s])
\* This step adds a call of transcribe_audio to those of session s.
Calls(s, kind) ==
    /\ Len(passes'[s]) = Len(passes[s]) + 1
    /\ passes'[s][Len(passes'[s])].kind = kind

\* C6: stop received by an open session that holds at least one chunk starts
\* one pass over the concatenation of all chunks appended, in arrival order;
\* when that pass returns, the session has sent exactly one final event, made
\* of the text, segments and duration of that pass, and is Closed.
C6_StopTranscribesAll ==
    /\ [](\A s \in Sessions :
            LET buf == accumulated_audio[s]
            IN  /\ spc[s] = "final"
                      => /\ CurrentPass(s).kind = "final"
                         /\ CurrentPass(s).input = RunsFrom(buf, 1)
                /\ (ended[s] = "stop" /\ buf # <<>>)
                      => /\ spc[s] = "closed"
                         /\ passes[s] # <<>>
                         /\ CurrentPass(s).kind = "final"
                         /\ CurrentPass(s).state = "done"
                         /\ CurrentPass(s).input = RunsFrom(buf, 1)
                         /\ Len(SelectSeq(passes[s], IsFinalPass)) = 1
                         /\ Len(Finals(s)) = 1
                         /\ events[s][Len(events[s])] =
                               [text |-> CurrentPass(s).result.full_text,
                                segments |-> CurrentPass(s).result.segments,
                                is_final |-> TRUE,
                                duration |-> CurrentPass(s).result.duration]
                         /\ model = "real"
                               => FracEq(CurrentPass(s).result.duration,
                                         Frac(TotalSamples(buf), 16000)))
    /\ [][\A s \in Sessions :
            (Takes(s) /\ Head(inbox[s]).type = "stop" /\ accumulated_audio[s] # <<>>)
                => Calls(s, "final") /\ spc'[s] \in {"final", "closed"}]_vars

\* A stop after more chunks than the partial window holds has been answered
\* by the real backend.
C6_Witness ==
    \E s \in Sessions :
        /\ ended[s] = "stop" /\ model = "real"
        /\ Len(accumulated_audio[s]) > 8
        /\ Len(Finals(s)) = 1 /\ Finals(s)[1].text = "hello"

\* C7: stop received by a session that never buffered audio is answered with
\* exactly one final event, with text "", no segments, is_final true and
\* duration 0; no inference is called and the session is Closed.
C7_StopWithoutAudio ==
    /\ [](\A s \in Sessions :
            (ended[s] = "stop" /\ accumulated_audio[s] = <<>>)
                => /\ spc[s] = "closed"
                   /\ passes[s] = <<>>
                   /\ Len(Finals(s)) = 1
                   /\ Errors(s) = <<>>
                   /\ LET e == events[s][Len(events[s])]
                      IN  /\ e.text = "" /\ e.segments = <<>> /\ e.is_final
                          /\ FracEq(e.duration, Frac(0, 1)))
    /\ [][\A s \in Sessions :
            (Takes(s) /\ Head(inbox[s]).type = "stop" /\ accumulated_audio[s] = <<>>)
                => /\ ended'[s] = "stop"
                   /\ backendRuns' = backendRuns
                   /\ Len(events'[s]) = Len(events[s]) + 1]_vars

\* A stop has been answered although no audio was buffered by the messages
\* before it.
C7_Witness ==
    \E s \in Sessions :
        ended[s] = "stop" /\ accumulated_audio[s] = <<>> /\ sent[s] > 1

\* C8: an audio message whose payload decodes appends the decoded chunk; a
\* partial pass starts only from the idle session, on an audio message after
\* whose append at least 32000 samples are buffered; its input is the last
\* min(8, number of chunks) chunks; when it returns the session is idle
\* again, whether the text has changed or not.
C8_PartialPass ==
    [][\A s \in Sessions :
        LET m == Head(inbox[s])
            buf == accumulated_audio'[s]
        IN  /\ (Takes(s) /\ MsgType(m) = "audio" /\ m.audio.present
                  /\ m.audio.valid /\ m.audio.nbytes % 4 = 0)
                  => buf = Append(accumulated_audio[s], m.audio.nbytes \div 4)
            /\ Calls(s, "partial")
                  => /\ Takes(s) /\ MsgType(m) = "audio"
                     /\ Len(buf) = Len(accumulated_audio[s]) + 1
                     /\ TotalSamples(buf) >= 32000
                     /\ passes'[s][Len(passes'[s])].input =
                           RunsFrom(buf, Len(buf) - Min(8, Len(buf)) + 1)
            /\ (passes'[s] # passes[s] /\ IsDonePartial(passes'[s][Len(passes'[s])]))
                  => spc'[s] = "recv"
            /\ (Takes(s) /\ MsgType(m) = "audio"
                  /\ TotalSamples(buf) < 32000)
                  => passes'[s] = passes[s]]_vars

\* With more than eight chunks buffered, a partial pass over the last eight
\* only has returned and the session is idle, although a pass has sent nothing.
C8_Witness ==
    \E s \in Sessions :
        /\ spc[s] = "recv"
        /\ Len(accumulated_audio[s]) > 8
        /\ passes[s] # <<>> /\ IsDonePartial(CurrentPass(s))
        /\ CurrentPass(s).input # RunsFrom(accumulated_audio[s], 1)
        /\ Len(Partials(s)) < Len(SelectSeq(passes[s], IsDonePartial))

\* C9: a partial pass that yields the same full_text as the partial pass
\* before it sends no event, and no two consecutive partial events of a
\* session carry the same text.
C9_NoRepeatedPartial ==
    /\ [](\A s \in Sessions : \A i \in 1..(Len(Partials(s)) - 1) :
            Partials(s)[i].text # Partials(s)[i + 1].text)
    /\ [][\A s \in Sessions :
            LET n == Len(passes'[s])
            IN  (/\ passes'[s] # passes[s]
                 /\ n >= 2
                 /\ IsDonePartial(passes'[s][n])
                 /\ IsDonePartial(passes'[s][n - 1])
                 /\ passes'[s][n].result.full_text = passes'[s][n - 1].result.full_text)
                    => events'[s] = events[s]]_vars

\* Three partial passes gave "hello", "hello" and "hello world": two partial
\* events were sent.
C9_Witness ==
    \E s \in Sessions :
        /\ Len(passes[s]) = 3
        /\ \A i \in 1..3 : IsDonePartial(passes[s][i])
        /\ passes[s][1].result.full_text = "hello"
        /\ passes[s][2].result.full_text = "hello"
        /\ passes[s][3].result.full_text = "hello world"
        /\ Len(Partials(s)) = 2

\* C10: a session has at most one inference call in flight; while it is
\* transcribing, a message that arrives is kept, in order, behind those
\* already waiting, none is taken, and no further pass starts.
C10_OnePassInFlight ==
    /\ [](\A s \in Sessions :
            /\ Len(SelectSeq(passes[s], IsPending)) <= 1
            /\ spc[s] \in {"partial", "final"}
                  <=> (passes[s] # <<>> /\ IsPending(CurrentPass(s))))
    /\ [][\A s \in Sessions :
            spc[s] \in {"partial", "final"}
                => /\ Len(passes'[s]) = Len(passes[s])
                   /\ accumulated_audio'[s] = accumulated_audio[s]
                   /\ \/ inbox'[s] = inbox[s]
                      \/ /\ Len(inbox'[s]) = Len(inbox[s]) + 1
                         /\ SubSeq(inbox'[s], 1, Len(inbox[s])) = inbox[s]]_vars

\* An audio chunk has arrived while the session's partial pass is in flight.
C10_Witness ==
    \E s \in Sessions :
        /\ spc[s] = "partial"
        /\ inbox[s] # <<>>
        /\ Head(inbox[s]).type = "audio" /\ Head(inbox[s]).audio = Pcm(16000)

\* The descriptions a raising pass can carry.
PassErrors == {"zero-size array", "backend failure", "Model not loaded"}
\* This step ends the pending pass of session s by an exception.
PassRaises(s, kind) ==
    /\ spc[s] = kind
    /\ passes'[s] # passes[s]
    /\ passes'[s][Len(passes'[s])].state = "raised"

\* C11: when a pass started by an audio message raises, the session sends
\* exactly one error event, with code TRANSCRIPTION_ERROR and the failure's
\* description, is idle again with its buffer intact, and goes on taking the
\* audio, stop and ping messages that follow.
C11_RecoversAfterRaise ==
    [][\A s \in Sessions :
          PassRaises(s, "partial")
              => /\ \E e \in PassErrors :
                      events'[s] = Append(events[s], ErrorEvent(e, "TRANSCRIPTION_ERROR"))
                 /\ accumulated_audio'[s] = accumulated_audio[s]
                 /\ spc'[s] = "recv"]_vars

\* The handler of session s takes an audio message whose payload does not
\* decode into float32 samples.
TakesUndecodable(s) ==
    /\ Takes(s)
    /\ MsgType(Head(inbox[s])) = "audio"
    /\ Head(inbox[s]).audio.present
    /\ Decode(Head(inbox[s]).audio).raised

\* C12: an audio message whose payload is not valid base64, or whose bytes
\* are not a whole number of float32 samples, is reported to the client,
\* leaves the buffer as it was, and leaves the session open: it is back at
\* receive_json() for the messages that follow.
C12_UndecodableKeepsSession ==
    [][\A s \in Sessions :
          TakesUndecodable(s)
              => /\ Len(events'[s]) = Len(events[s]) + 1
                 /\ IsError(events'[s][Len(events'[s])])
                 /\ accumulated_audio'[s] = accumulated_audio[s]
                 /\ spc'[s] = "recv"
                 /\ ended'[s] = None]_vars

\* C13: when the handler finds the transport disconnected, the session is
\* Closed at once: no pass is started, no event is sent, then or later, and
\* the audio buffered so far, however much, goes through no final pass.
C13_DisconnectDiscards ==
    /\ [](\A s \in Sessions :
            ended[s] = "disconnect"
                => /\ spc[s] = "closed"
                   /\ Finals(s) = <<>>
                   /\ SelectSeq(passes[s], IsFinalPass) = <<>>
                   /\ SelectSeq(passes[s], IsPending) = <<>>)
    /\ [][\A s \in Sessions :
            /\ (Takes(s) /\ Head(inbox[s]).type = "disconnect")
                  => /\ spc'[s] = "closed"
                     /\ ended'[s] = "disconnect"
                     /\ passes'[s] = passes[s]
                     /\ events'[s] = events[s]
                     /\ backendRuns' = backendRuns
            /\ ended[s] = "disconnect"
                  => /\ UNCHANGED <<spc[s], events[s], passes[s], ended[s]>>
                     /\ backendRuns' = backendRuns]_vars

\* A session was disconnected with more audio buffered than the partial
\* threshold, after a partial event had been sent.
C13_Witness ==
    \E s \in Sessions :
        /\ ended[s] = "disconnect"
        /\ TotalSamples(accumulated_audio[s]) > PARTIAL_THRESHOLD
        /\ Len(Partials(s)) = 1

\* C14: a ping taken by an open session is answered by exactly one event,
\* {"type": "pong"}; the audio buffer, the last partial text and the
\* session's state stay as they were, and no pass is started.
C14_PingPongs ==
    [][\A s \in Sessions :
          (Takes(s) /\ Head(inbox[s]).type = "ping")
              => /\ events'[s] = Append(events[s], [type |-> "pong"])
                 /\ accumulated_audio'[s] = accumulated_audio[s]
                 /\ last_partial_text'[s] = last_partial_text[s]
                 /\ spc'[s] = spc[s]
                 /\ ended'[s] = ended[s]
                 /\ passes'[s] = passes[s]
                 /\ backendRuns' = backendRuns]_vars

\* A ping was answered after a partial event, with audio in the buffer, and
\* the session is still receiving.
C14_Witness ==
    \E s \in Sessions :
        /\ spc[s] = "recv"
        /\ events[s] # <<>> /\ IsPong(events[s][Len(events[s])])
        /\ last_partial_text[s] = "hello"
        /\ TotalSamples(accumulated_audio[s]) >= PARTIAL_THRESHOLD

\* The direct calls answered by the mock branch.
MockAnswered == {k \in ApiCallers : ares[k].status = "ok" /\ model = None}

\* C16 as stated: a call answered in degraded mode returns the placeholder
\* text and a duration of len(samples) / sample_rate.
C16_DegradedDurationFromInput ==
    \A k \in MockAnswered :
        /\ ares[k].result.full_text = MockText
        /\ FracEq(ares[k].result.duration,
                  Frac(ArrayLen(ainput[k]), DefaultSampleRate))

\* C16, amended: a call answered in degraded mode returns, whatever the
\* samples, the placeholder text as full_text, one segment with that text
\* from 0.0 to 1.0, and the duration 1.0; nothing is handed to the backend.
C16_DegradedFixedResult ==
    \A k \in MockAnswered :
        /\ apc[k] = "done"
        /\ ares[k].result.full_text =
              "[Mock transcription - parakeet-mlx not installed]"
        /\ FracEq(ares[k].result.duration, Frac(1, 1))
        /\ Len(ares[k].result.segments) = 1
        /\ ares[k].result.segments[1].text = ares[k].result.full_text
        /\ FracEq(ares[k].result.segments[1].start, Frac(0, 1))
        /\ FracEq(ares[k].result.segments[1].end, Frac(1, 1))
        /\ backendRuns = 0

\* Two seconds of audio were answered in degraded mode.
C16_Witness ==
    \E k \in MockAnswered : ArrayLen(ainput[k]) = 32000

ErrorCodes == {"MODEL_NOT_READY", "TRANSCRIPTION_ERROR"}
\* This step is a failure in the handling of session s: the readiness check
\* fails, a payload does not decode, or a call of transcribe_audio raises.
FailsReadiness(s) == spc[s] = "new" /\ spc'[s] # "new" /\ ~is_loaded
FailsInPass(s) ==
    /\ passes'[s] # passes[s]
    /\ passes'[s][Len(passes'[s])].state = "raised"
\* This step sends one event to the client of s, an error event with the
\* given code and nothing but an error text beside it.
SendsOneError(s, code) ==
    /\ Len(events'[s]) = Len(events[s]) + 1
    /\ SubSeq(events'[s], 1, Len(events[s])) = events[s]
    /\ DOMAIN events'[s][Len(events'[s])] = {"error", "code"}
    /\ events'[s][Len(events'[s])].code = code

\* C17: every failure in the handling of a session (readiness check, decode,
\* inference or extraction) sends the client exactly one event, an error
\* event {error, code} with code MODEL_NOT_READY for the readiness check and
\* TRANSCRIPTION_ERROR for the others; a session sends at most one error
\* event, as its last event, and sends one only when it has failed.
C17_OneErrorEvent ==
    /\ [](\A s \in Sessions :
            /\ Len(Errors(s)) <= 1
            /\ Len(Errors(s)) = 1 <=> ended[s] \in {"not_ready", "error"}
            /\ \A i \in 1..Len(events[s]) :
                 IsError(events[s][i])
                     => i = Len(events[s]) /\ events[s][i].code \in ErrorCodes)
    /\ [][\A s \in Sessions :
            /\ FailsReadiness(s) => SendsOneError(s, "MODEL_NOT_READY")
            /\ (TakesUndecodable(s) \/ FailsInPass(s))
                  => SendsOneError(s, "TRANSCRIPTION_ERROR")
            /\ Len(Errors(s)') > Len(Errors(s))
                  => FailsReadiness(s) \/ TakesUndecodable(s) \/ FailsInPass(s)]_vars

\* A final pass raised after a partial event had been sent: the error event
\* is the second and last event of the session.
C17_Witness ==
    \E s \in Sessions :
        /\ ended[s] = "error" /\ passes[s] # <<>>
        /\ CurrentPass(s).kind = "final" /\ CurrentPass(s).state = "raised"
        /\ Len(Partials(s)) = 1 /\ Len(Errors(s)) = 1 /\ Len(events[s]) = 2

IsPartialPass(p) == p.kind = "partial"
\* The appends of a buffer after which at least 32000 samples are buffered.
Crossings(buf) ==
    {i \in 1..Len(buf) : ArrayLen(RunsFrom(SubSeq(buf, 1, i), 1)) >= 32000}
\* Session s has run on a loaded engine and its handler has returned.
ScenarioOver(s) == spc[s] = "closed" /\ ended[s] # "not_ready"

Converted == returned # <<>> /\ "segments" \in DOMAIN returned[1]
\* len(audio_data) / sample_rate of the conversion under way.
Duration == Frac(ArrayLen(audio_data), 16000)
FracLeq(x, y) == x.num * y.den <= y.num * x.den
Blank(str) == \A i \in 1..Len(str) : str[i] \in {" ", "\n"}
\* y is x without the blanks at its two ends.
Trimmed(x, y) ==
    /\ y # <<>> => ~Blank(<<y[1]>>) /\ ~Blank(<<y[Len(y)]>>)
    /\ \E i \in 0..Len(x), j \in 0..Len(x) :
          /\ i + Len(y) + j = Len(x)
          /\ Blank(SubSeq(x, 1, i))
          /\ SubSeq(x, i + 1, i + Len(y)) = y
          /\ Blank(SubSeq(x, Len(x) - j + 1, Len(x)))
\* The text of a sentence or token: its text attribute, else its str().
OwnText(obj) == IF "text" \in DOMAIN obj THEN obj.text ELSE obj.repr
HasList(obj, name) == name \in DOMAIN obj /\ obj[name] # <<>>
\* The offsets of a sentence's tokens lie within the audio and the first
\* token does not start after the last one ends.
WellTimed(g, d) ==
    HasList(g, "tokens") =>
        LET toks == g.tokens
        IN  /\ \A i \in 1..Len(toks) :
                 /\ "start" \in DOMAIN toks[i]
                       => FracLeq(Frac(0, 1), toks[i].start) /\ FracLeq(toks[i].start, d)
                 /\ "end" \in DOMAIN toks[i]
                       => FracLeq(Frac(0, 1), toks[i].end) /\ FracLeq(toks[i].end, d)
            /\ ("start" \in DOMAIN toks[1] /\ "end" \in DOMAIN toks[Len(toks)])
                  => FracLeq(toks[1].start, toks[Len(toks)].end)
\* The segment seg has the trimmed text of the sentence g.
OfGroup(seg, g) == Trimmed(OwnText(g), seg.text)

\* C18 as stated: a backend result with sentences is converted into one
\* segment per sentence, in their order, each with the sentence's trimmed
\* text, and start <= end holds for every segment.
C18_SegmentPerGroupOrdered ==
    (Converted /\ HasList(result, "sentences"))
        => LET segs == returned[1].segments
           IN  /\ Len(segs) = Len(result.sentences)
               /\ \A i \in 1..Len(segs) :
                     /\ OfGroup(segs[i], result.sentences[i])
                     /\ FracLeq(segs[i].start, segs[i].end)

\* C18, amended: a backend result with sentences is converted into one
\* segment per sentence, in their order, each with the sentence's trimmed
\* text; start is the first token's start (0.0 without one) and end the last
\* token's end (the duration without one), copied unchecked, so that
\* start <= end holds for the sentences whose token offsets lie within the
\* audio with the first start not after the last end.
C18_SegmentPerGroupTimedAsGiven ==
    (Converted /\ HasList(result, "sentences"))
        => LET segs == returned[1].segments
           IN  /\ Len(segs) = Len(result.sentences)
               /\ \A i \in 1..Len(segs) :
                     LET g == result.sentences[i]
                         timed == HasList(g, "tokens")
                     IN  /\ OfGroup(segs[i], g)
                         /\ FracEq(segs[i].start,
                                   IF timed /\ "start" \in DOMAIN g.tokens[1]
                                   THEN g.tokens[1].start ELSE Frac(0, 1))
                         /\ FracEq(segs[i].end,
                                   IF timed /\ "end" \in DOMAIN g.tokens[Len(g.tokens)]
                                   THEN g.tokens[Len(g.tokens)].end ELSE Duration)
                         /\ WellTimed(g, Duration)
                               => FracLeq(segs[i].start, segs[i].end)

\* Two sentences were converted: the first, whose text had blanks around it,
\* has a token with a start and no end, the second has no tokens.
C18_Witness ==
    /\ Converted /\ HasList(result, "sentences")
    /\ Len(returned[1].segments) = 2
    /\ LET first == returned[1].segments[1]
           second == returned[1].segments[2]
       IN  /\ first.text = <<"H", "i", ".">>
           /\ FracEq(first.start, Frac(1, 1)) /\ FracEq(first.end, Frac(5, 2))
           /\ second.text = <<"y", "o">>
           /\ FracEq(second.start, Frac(0, 1)) /\ FracEq(second.end, Frac(5, 2))

\* The trimmed text of a token ends in '.', '?' or '!'.
Closes(tok) ==
    LET x == OwnText(tok)
    IN  \E i \in 1..Len(x) :
            x[i] \in {".", "?", "!"} /\ Blank(SubSeq(x, i + 1, Len(x)))
\* The positions of the closing tokens of a list, and the k-th of them.
Closers(toks) == {i \in 1..Len(toks) : Closes(toks[i])}
Kth(S, k) == CHOOSE x \in S : Cardinality({y \in S : y <= x}) = k
\* The tokens of the k-th segment: from after the closing token before it to
\* its own closing token, or to the last token when it has none.
FirstOf(toks, k) == IF k = 1 THEN 1 ELSE Kth(Closers(toks), k - 1) + 1
LastOf(toks, k) ==
    IF k <= Cardinality(Closers(toks)) THEN Kth(Closers(toks), k) ELSE Len(toks)
\* The texts of the tokens lo..hi, one after the other.
RECURSIVE TextsFrom(_, _, _)
TextsFrom(toks, lo, hi) ==
    IF lo > hi THEN <<>> ELSE OwnText(toks[lo]) \o TextsFrom(toks, lo + 1, hi)
FlatTokensOnly == ~HasList(result, "sentences") /\ HasList(result, "tokens")

FlatTextOnly ==
    /\ "text" \in DOMAIN result
    /\ ~HasList(result, "sentences") /\ ~HasList(result, "tokens")

\* C20: a backend result with a text and neither sentences nor tokens is
\* converted, whatever the duration, into exactly one segment, with start 0,
\* end the duration, and the text as it is, blanks included.
C20_FlatTextOneSegment ==
    (Converted /\ FlatTextOnly)
        => LET segs == returned[1].segments
           IN  /\ Len(segs) = 1
               /\ segs[1].text = result.text
               /\ FracEq(segs[1].start, Frac(0, 1))
               /\ FracEq(segs[1].end, Duration)
               /\ FracEq(segs[1].end, returned[1].duration)

\* A text with blanks around it, from 2.5 s of audio, has become one segment
\* that ends at 2.5.
C20_Witness ==
    /\ Converted /\ FlatTextOnly
    /\ result.text = <<" ", "H", "i", ".", " ">>
    /\ Len(returned[1].segments) = 1
    /\ FracEq(returned[1].segments[1].end, Frac(5, 2))

\* ' '.join of the texts of a list of segments.
RECURSIVE JoinedBySpace(_)
JoinedBySpace(segs) ==
    IF Len(segs) = 0 THEN <<>>
    ELSE IF Len(segs) = 1 THEN segs[1].text
    ELSE segs[1].text \o <<" ">> \o JoinedBySpace(SubSeq(segs, 2, Len(segs)))

\* C21 as stated: full_text is the backend result's text, verbatim, when it
\* has one, and the segment texts joined with a single space when it has none.
C21_FullTextVerbatimOrJoined ==
    Converted
        => returned[1].full_text =
              IF "text" \in DOMAIN result THEN result.text
              ELSE JoinedBySpace(returned[1].segments)

\* C21, amended: full_text is the backend result's text, verbatim, when it
\* has one, and str(result), the result's own string form, when it has none;
\* it is never rebuilt from the segments.
C21_FullTextVerbatimOrStr ==
    Converted
        => returned[1].full_text =
              IF "text" \in DOMAIN result THEN result.text ELSE result.repr

\* A result without text was converted into two segments from its tokens;
\* full_text is its str(), not their texts.
C21_Witness ==
    /\ Converted /\ "text" \notin DOMAIN result
    /\ Len(returned[1].segments) = 2
    /\ returned[1].segments[1].text = <<"b", ".">>
    /\ returned[1].full_text = <<"r">>

\* The conversion under way has raised instead of returning.
Raised == returned # <<>> /\ "raised" \in DOMAIN returned[1]

\* C22: the conversion never fails: for every raw output, a sentence or a
\* token whose text is absent or None included, it returns a result and
\* raises nothing.
C22_ConversionNeverRaises == ~Raised

\* The backend result has neither sentences nor tokens.
NoFinerStructure == ~HasList(result, "sentences") /\ ~HasList(result, "tokens")

\* r has the fallback segment and nothing else: all of its text, from 0 to
\* its duration.
OnlyFallback(r) ==
    /\ Len(r.segments) = 1
    /\ r.segments[1].text = r.full_text
    /\ FracEq(r.segments[1].start, Frac(0, 1))
    /\ FracEq(r.segments[1].end, r.duration)

\* C23: every result that inference returns has at least one segment
\* whenever its full text is not empty (it has one whatever the text is);
\* a result made from a backend result without sentences and without tokens,
\* and the result of the degraded mode, have the fallback segment alone,
\* from 0 to the duration.
C23_SegmentsNeverEmpty ==
    /\ Converted
          => /\ returned[1].full_text # <<>> => returned[1].segments # <<>>
             /\ returned[1].segments # <<>>
             /\ NoFinerStructure
                   => OnlyFallback(returned[1])
                         /\ FracEq(returned[1].duration, Duration)
    /\ OnlyFallback(MockResult)

C23_Witness ==
    /\ Converted /\ NoFinerStructure
    /\ returned[1].full_text = <<" ", "H", "i", ".", " ">>
    /\ Len(returned[1].segments) = 1
    /\ FracEq(returned[1].segments[1].end, Frac(2, 1))

GroupCount(toks) ==
    Cardinality(Closers(toks)) + (IF Len(toks) \in Closers(toks) THEN 0 ELSE 1)

\* C25: the sources of the segments are tried in strict order. With a
\* non-empty sentence list the segments are the sentences' and nothing else,
\* a flat token list beside them included; the flat token list is grouped
\* only when there are no sentences; the whole-text segment is produced only
\* when neither gave a segment, that is, when both are absent or empty (each
\* non-empty list gives at least one segment of its own).
C25_SentencesThenTokensThenText ==
    Converted
        => LET segs == returned[1].segments
           IN  /\ HasList(result, "sentences")
                     => /\ Len(segs) = Len(result.sentences)
                        /\ \A i \in 1..Len(segs) :
                              Trimmed(OwnText(result.sentences[i]), segs[i].text)
               /\ (~HasList(result, "sentences") /\ HasList(result, "tokens"))
                     => /\ Len(segs) = GroupCount(result.tokens)
                        /\ \A k \in 1..Len(segs) :
                              Trimmed(TextsFrom(result.tokens,
                                                FirstOf(result.tokens, k),
                                                LastOf(result.tokens, k)),
                                      segs[k].text)
               /\ (~HasList(result, "sentences") /\ ~HasList(result, "tokens"))
                     => /\ Len(segs) = 1
                        /\ segs[1].text = returned[1].full_text
                        /\ FracEq(segs[1].start, Frac(0, 1))
                        /\ FracEq(segs[1].end, Duration)

\* A result with one sentence and a flat token list beside it: the segment
\* is the sentence's, the token is not used.
C25_Witness ==
    /\ Converted
    /\ HasList(result, "sentences") /\ HasList(result, "tokens")
    /\ OwnText(result.tokens[1]) = <<"b", ".">>
    /\ Len(returned[1].segments) = 1
    /\ returned[1].segments[1].text = <<"y", "o">>

\* The start of a token list as a segment takes it: the first token's, 0.0
\* when the list is empty or the token has none.
StartFrom(toks) ==
    IF toks # <<>> /\ "start" \in DOMAIN toks[1] THEN toks[1].start ELSE Frac(0, 1)
\* Its end: the last token's, the duration when the list is empty or the
\* token has none.
EndFrom(toks) ==
    IF toks # <<>> /\ "end" \in DOMAIN toks[Len(toks)]
    THEN toks[Len(toks)].end ELSE Duration
\* The tokens a sentence has, none when it has no token list.
TokensIn(g) == IF "tokens" \in DOMAIN g THEN g.tokens ELSE <<>>

\* C26: in the sentence step and in the token step alike, a segment starts
\* where the first token of its group starts and ends where the last one
\* ends; the start is 0.0 and the end is the duration when the group has no
\* tokens or the token has no such offset.
C26_OffsetsFromFirstAndLastToken ==
    Converted
        => LET segs == returned[1].segments
           IN  /\ HasList(result, "sentences")
                     => \A i \in 1..Len(segs) :
                           /\ FracEq(segs[i].start, StartFrom(TokensIn(result.sentences[i])))
                           /\ FracEq(segs[i].end, EndFrom(TokensIn(result.sentences[i])))
               /\ FlatTokensOnly
                     => \A k \in 1..Len(segs) :
                           LET group == SubSeq(result.tokens,
                                               FirstOf(result.tokens, k),
                                               LastOf(result.tokens, k))
                           IN  /\ FracEq(segs[k].start, StartFrom(group))
                               /\ FracEq(segs[k].end, EndFrom(group))

\* Two tokens made one segment: the first has a start, the last has no end.
C26_Witness ==
    /\ Converted /\ FlatTokensOnly
    /\ Len(result.tokens) = 2
    /\ Len(returned[1].segments) = 1
    /\ returned[1].segments[1].text = <<".", "d", "!">>
    /\ FracEq(returned[1].segments[1].start, Frac(3, 1))
    /\ FracEq(returned[1].segments[1].end, Frac(5, 2))

\* The backend result has no flat text: no text attribute, or an empty one.
NoFlatText == "text" \notin DOMAIN result \/ result.text = <<>>

\* C27 as stated: a backend result without sentences, tokens and flat text
\* is converted into exactly one segment, with empty text, from 0 to the
\* duration.
C27_NothingGivesEmptySegment ==
    (Converted /\ NoFinerStructure /\ NoFlatText)
        => /\ Len(returned[1].segments) = 1
           /\ returned[1].segments[1].text = <<>>
           /\ FracEq(returned[1].segments[1].start, Frac(0, 1))
           /\ FracEq(returned[1].segments[1].end, Duration)

\* C27, amended: a backend result without sentences, tokens and flat text is
\* converted into exactly one segment from 0 to the duration; its text is
\* empty when the text attribute is the empty string, and the string form of
\* the result object when the attribute is absent.
C27_NothingGivesOneSegment ==
    (Converted /\ NoFinerStructure /\ NoFlatText)
        => /\ Len(returned[1].segments) = 1
           /\ returned[1].segments[1].text =
                 IF "text" \in DOMAIN result THEN <<>> ELSE result.repr
           /\ FracEq(returned[1].segments[1].start, Frac(0, 1))
           /\ FracEq(returned[1].segments[1].end, Duration)

\* A result with no attribute at all was converted for 2 s of audio.
C27_Witness ==
    /\ Converted /\ DOMAIN result = {"repr"}
    /\ returned[1].segments =
          <<[text |-> <<"r">>, start |-> Frac(0, 1), end |-> Frac(32000, 16000)]>>

\* str has no blank at either end.
IsTrimmed(str) == str # <<>> => ~Blank(<<str[1]>>) /\ ~Blank(<<str[Len(str)]>>)
\* seg starts at or after 0 and does not end before it starts.
InOrder(seg) == FracLeq(Frac(0, 1), seg.start) /\ FracLeq(seg.start, seg.end)
\* The tokens the k-th segment was made from, and their texts in one.
SourceTokens(k) ==
    IF HasList(result, "sentences") THEN TokensIn(result.sentences[k])
    ELSE SubSeq(result.tokens, FirstOf(result.tokens, k), LastOf(result.tokens, k))
SourceText(k) ==
    IF HasList(result, "sentences") THEN OwnText(result.sentences[k])
    ELSE TextsFrom(result.tokens, FirstOf(result.tokens, k), LastOf(result.tokens, k))

\* C28 as stated: every segment of every result has a trimmed text, empty
\* only if the whole transcript is empty, a start >= 0 and an end >= start.
C28_SegmentsWellFormed ==
    Converted
        => \A i \in 1..Len(returned[1].segments) :
              LET seg == returned[1].segments[i]
              IN  /\ IsTrimmed(seg.text)
                  /\ seg.text = <<>> => Blank(returned[1].full_text)
                  /\ InOrder(seg)

\* C28, amended: a segment made from a sentence or from tokens has a trimmed
\* text, empty exactly when its source text is blank; the whole-text segment
\* has the full text as it is, blanks included; start >= 0 and end >= start
\* hold for the segments without tokens, for those whose tokens' offsets lie
\* within the audio with the first start not after the last end, and for the
\* segment of the degraded mode.
C28_SegmentsAsGiven ==
    /\ Converted
          => \A i \in 1..Len(returned[1].segments) :
                LET seg == returned[1].segments[i]
                IN  IF NoFinerStructure
                    THEN seg.text = returned[1].full_text /\ InOrder(seg)
                    ELSE /\ IsTrimmed(seg.text)
                         /\ seg.text = <<>> <=> Blank(SourceText(i))
                         /\ WellTimed([tokens |-> SourceTokens(i)], Duration)
                               => InOrder(seg)
    /\ InOrder(MockResult.segments[1])
    /\ MockResult.segments[1].text = MockResult.full_text

\* The tokens "b." and " " were converted: the second segment is empty in a
\* transcript that is not.
C28_Witness ==
    /\ Converted /\ FlatTokensOnly
    /\ Len(returned[1].segments) = 2
    /\ returned[1].segments[1].text = <<"b", ".">>
    /\ returned[1].segments[2].text = <<>>
    /\ returned[1].full_text = <<" ", "H", "i", ".", " ">>

\* C29 as stated: in every result the segments are in ascending order of
\* start.
C29_AscendingStarts ==
    Converted
        => \A i, j \in 1..Len(returned[1].segments) :
              i < j => FracLeq(returned[1].segments[i].start,
                               returned[1].segments[j].start)

\* C29, amended: the segments are in the order in which the backend result
\* lists the sentences, or the token groups, they were made from; their
\* starts ascend wherever the starts of these do, 0.0 standing for a start
\* that is missing. Nothing sorts them.
C29_SourceOrder ==
    (Converted /\ ~NoFinerStructure)
        => LET segs == returned[1].segments
           IN  /\ \A k \in 1..Len(segs) :
                     /\ Trimmed(SourceText(k), segs[k].text)
                     /\ FracEq(segs[k].start, StartFrom(SourceTokens(k)))
               /\ \A i, j \in 1..Len(segs) :
                     (i < j /\ FracLeq(StartFrom(SourceTokens(i)),
                                       StartFrom(SourceTokens(j))))
                        => FracLeq(segs[i].start, segs[j].start)

\* The tokens "b." (from 1 s) and " a" (from 0 s) were converted: the
\* segments are in that order.
C29_Witness ==
    /\ Converted /\ FlatTokensOnly
    /\ Len(returned[1].segments) = 2
    /\ returned[1].segments[1].text = <<"b", ".">>
    /\ FracEq(returned[1].segments[1].start, Frac(1, 1))
    /\ returned[1].segments[2].text = <<"a">>
    /\ FracEq(returned[1].segments[2].start, Frac(0, 1))

\* The handler of s is about to take an audio message that decodes.
TakesDecodedAudio(s) ==
    /\ spc[s] = "recv" /\ inbox[s] # <<>>
    /\ MsgType(Head(inbox[s])) = "audio"
    /\ Head(inbox[s]).audio.present
    /\ ~Decode(Head(inbox[s]).audio).raised

\* C30: within a session the buffer only grows at its end: no step lowers
\* the number of samples buffered, removes, moves or changes a chunk that is
\* in it, and the only step that changes it is the handling of an audio
\* message that decodes, which appends the decoded chunk.
C30_BufferAppendOnly ==
    [][\A s \in Sessions :
          LET old == accumulated_audio[s]
              new == accumulated_audio'[s]
          IN  /\ Len(new) >= Len(old)
              /\ SubSeq(new, 1, Len(old)) = old
              /\ TotalSamples(new) >= TotalSamples(old)
              /\ new # old
                    => /\ TakesDecodedAudio(s)
                       /\ new = Append(old, Decode(Head(inbox[s]).audio).n)]_vars

\* Chunks were buffered, a message that does not decode was taken after
\* them, and the buffer is as it was.
C30_Witness ==
    /\ Len(accumulated_audio["s1"]) >= 2
    /\ ended["s1"] = "error"
    /\ passes["s1"] = <<>>

\* The chunks of a buffer appended when, with them, at least 32000 samples
\* were buffered.
AtOrAfterThreshold(buf) ==
    {i \in 1..Len(buf) : TotalSamples(SubSeq(buf, 1, i)) >= 32000}

RECURSIVE SentOf(_, _)
SentOf(texts, last) ==
    IF texts = <<>> THEN <<>>
    ELSE IF Head(texts) # last
    THEN <<Head(texts)>> \o SentOf(Tail(texts), Head(texts))
    ELSE SentOf(Tail(texts), last)
\* The texts of the partial passes of s that have returned, in order.
PartialTexts(s) ==
    LET done == SelectSeq(passes[s], IsDonePartial)
    IN  [i \in 1..Len(done) |-> done[i].result.full_text]
\* The text of the partial event s sent last, "" when it has sent none.
LastPartialSent(s) ==
    IF Partials(s) = <<>> THEN "" ELSE Partials(s)[Len(Partials(s))].text

\* C33: a partial pass that returns sends a partial event if and only if its
\* full_text differs from the text of the partial event the session sent
\* last, "" before any: the partial events are exactly these texts, in order,
\* so that a first pass with an empty text sends nothing; the remembered
\* text is at all times the text of the last partial event sent.
C33_PartialIffTextChanged ==
    \A s \in Sessions :
        /\ [i \in 1..Len(Partials(s)) |-> Partials(s)[i].text]
              = SentOf(PartialTexts(s), "")
        /\ last_partial_text[s] = LastPartialSent(s)

\* The first partial pass gave "" and sent nothing; the second gave "hello"
\* and sent the only partial event.
C33_Witness ==
    \E s \in Sessions :
        /\ PartialTexts(s) = <<"", "hello">>
        /\ Len(Partials(s)) = 1
        /\ last_partial_text[s] = "hello"

\* The final pass of session s has returned.
FinalPassDone(s) ==
    passes[s] # <<>> /\ CurrentPass(s).kind = "final" /\ CurrentPass(s).state = "done"

\* C34: the final event is sent whatever its text: once the final pass of a
\* session has returned, the last event of the session is the final event of
\* that pass, also when its text is the text of the last partial event; the
\* remembered partial text is still the text of the last partial event, the
\* final pass has not changed it.
C34_FinalUnconditional ==
    \A s \in Sessions :
        FinalPassDone(s)
            => /\ ended[s] = "stop"
               /\ events[s] # <<>>
               /\ events[s][Len(events[s])] = FinalEvent(CurrentPass(s).result)
               /\ Len(Finals(s)) = 1
               /\ last_partial_text[s] = LastPartialSent(s)

\* The final event "hello" was sent after the partial event "hello".
C34_Witness ==
    \E s \in Sessions :
        /\ FinalPassDone(s)
        /\ LastPartialSent(s) = "hello"
        /\ events[s][Len(events[s])].is_final
        /\ events[s][Len(events[s])].text = "hello"

\* Session s has taken a stop message.
StopHandled(s) ==
    ended[s] = "stop" \/ (passes[s] # <<>> /\ CurrentPass(s).kind = "final")

\* C35: on stop, transcribe_audio is not called and the empty final event is
\* sent exactly when no sample is buffered, the buffers made of chunks of no
\* samples included.
C35_EmptyFinalIffNoSamples ==
    \A s \in Sessions :
        StopHandled(s)
            => (TotalSamples(accumulated_audio[s]) = 0
                   <=> /\ SelectSeq(passes[s], IsFinalPass) = <<>>
                       /\ events[s] # <<>>
                       /\ events[s][Len(events[s])] = EmptyFinalEvent)

\* Session s has had its outcome: a final event, an error event or a
\* disconnect.
Terminated(s) ==
    Finals(s) # <<>> \/ Errors(s) # <<>> \/ ended[s] = "disconnect"

\* C36: a session has at most one outcome and nothing follows it: it sends
\* at most one final event, at most one error event and never both, and the
\* one it sends is its last event; once it has sent it, or the client has
\* disconnected, its handler has returned: it takes no message from the
\* transport, starts no pass, has none in flight and sends no event.
C36_OneOutcomeThenNothing ==
    /\ [](\A s \in Sessions :
            /\ Len(Finals(s)) + Len(Errors(s)) <= 1
            /\ Terminated(s)
                  => /\ spc[s] = "closed"
                     /\ ended[s] # None
                     /\ SelectSeq(passes[s], IsPending) = <<>>
                     /\ ended[s] # "disconnect"
                           => LET e == events[s][Len(events[s])]
                              IN  IsFinal(e) \/ IsError(e))
    /\ [][\A s \in Sessions :
            Terminated(s)
                => /\ events'[s] = events[s]
                   /\ passes'[s] = passes[s]
                   /\ spc'[s] = spc[s] /\ ended'[s] = ended[s]
                   /\ accumulated_audio'[s] = accumulated_audio[s]
                   /\ last_partial_text'[s] = last_partial_text[s]
                   /\ \/ inbox'[s] = inbox[s]
                      \/ /\ Len(inbox'[s]) = Len(inbox[s]) + 1
                         /\ SubSeq(inbox'[s], 1, Len(inbox[s])) = inbox[s]]_vars

\* The client sent an audio chunk after the final event: it stays on the
\* transport.
C36_Witness ==
    \E s \in Sessions :
        /\ ended[s] = "stop" /\ Len(Finals(s)) = 1
        /\ inbox[s] # <<>> /\ Head(inbox[s]).audio = Pcm(32000)

\* A message that no branch acts on: a type other than stop, audio and ping,
\* or an audio message whose audio field is missing or empty.
Ignored(m) ==
    \/ MsgType(m) = "other"
    \/ MsgType(m) = "audio" /\ ~m.audio.present

\* C37: a message of a type other than stop, audio and ping, and an audio
\* message without audio, are taken from the transport and change nothing
\* else: not the buffer, the remembered text, the events, the passes or where
\* the handler is, and no job goes to the executor; a message without a type
\* is handled as an audio message: its chunk, when it decodes, is appended.
C37_IgnoredMessagesChangeNothing ==
    [][\A s \in Sessions :
          Takes(s)
              => LET m == Head(inbox[s])
                 IN  /\ Ignored(m)
                           => /\ accumulated_audio'[s] = accumulated_audio[s]
                              /\ last_partial_text'[s] = last_partial_text[s]
                              /\ events'[s] = events[s]
                              /\ passes'[s] = passes[s]
                              /\ spc'[s] = "recv" /\ ended'[s] = ended[s]
                              /\ backendRuns' = backendRuns
                     /\ (m.type = NoType /\ m.audio.present /\ ~Decode(m.audio).raised)
                           => accumulated_audio'[s] =
                                 Append(accumulated_audio[s], Decode(m.audio).n)]_vars

\* The one message sent after the short chunks has been taken and has left
\* no trace: no chunk, no event, and the handler is waiting for the next.
C37_Witness ==
    \E s \in Sessions :
        /\ spc[s] = "recv" /\ inbox[s] = <<>>
        /\ freeSent[s] = 1 /\ sent[s] >= 3
        /\ Len(accumulated_audio[s]) = sent[s] - 1
        /\ events[s] = <<>>

\* The _transcribe job of session s is with the executor.
InFlight(s) == spc[s] \in {"partial", "final"}
\* The handler of s is at receive_json() and the next message is a chunk
\* that decodes.
ChunkNext(s) ==
    /\ spc[s] = "recv" /\ inbox[s] # <<>>
    /\ MsgType(Head(inbox[s])) = "audio"
    /\ Head(inbox[s]).audio.present /\ ~Decode(Head(inbox[s]).audio).raised
\* The handler of s takes the next chunk and appends it.
AppendsNext(s) ==
    /\ HandleAudio(s)
    /\ accumulated_audio'[s] =
          Append(accumulated_audio[s], Decode(Head(inbox[s]).audio).n)

\* C31: inference is not serialized across sessions. While the inference
\* call of one session is in flight on the loaded engine, another session
\* whose next message is a chunk can take it and append it to its own buffer
\* and, when 32000 samples are reached with it, have its own inference call
\* in flight beside the first; likewise its stop starts its final pass. The
\* jobs handed to the executor are never fewer than the calls in flight.
C31_InferenceNotSerialized ==
    /\ backendRuns >= Cardinality({s \in Pair : InFlight(s)})
    /\ \A s \in Pair, o \in Pair :
          (o # s /\ InFlight(o) /\ model = "real")
              => /\ ChunkNext(s) => ENABLED AppendsNext(s)
                 /\ (/\ ChunkNext(s)
                     /\ TotalSamples(accumulated_audio[s])
                           + Decode(Head(inbox[s]).audio).n >= 32000)
                       => ENABLED (AppendsNext(s) /\ InFlight(s)' /\ InFlight(o)')
                 /\ (/\ spc[s] = "recv" /\ inbox[s] # <<>>
                     /\ Head(inbox[s]) = Stop /\ accumulated_audio[s] # <<>>)
                       => ENABLED (HandleStop(s) /\ InFlight(s)' /\ InFlight(o)')

\* The partial passes of both sessions are in flight at the same time.
C31_Witness ==
    /\ spc["s1"] = "partial" /\ spc["s2"] = "partial"
    /\ is_loaded /\ backendRuns >= 2

\* Session s has passed the readiness check.
PassedCheck(s) == spc[s] # "new" /\ ended[s] # "not_ready"
\* The events of s that tell the client the model is not loaded.
NotReadyEvents(s) ==
    SelectSeq(events[s],
              LAMBDA e : IsError(e)
                           /\ (e.code = "MODEL_NOT_READY" \/ e.error = "Model not loaded"))

\* C38: readiness is checked once, when the session starts. A session that
\* has passed the check sends no MODEL_NOT_READY event and none of its calls
\* of transcribe_audio raises "Model not loaded", whatever load_model()
\* calls and whatever the other session do in between: the engine, once
\* loaded, stays loaded. A session that failed the check has sent the one
\* MODEL_NOT_READY event and made no call.
C38_ReadyOnceReadyEver ==
    \A s \in Pair :
        /\ PassedCheck(s)
              => /\ is_loaded
                 /\ NotReadyEvents(s) = <<>>
        /\ ended[s] = "not_ready"
              => /\ events[s] = <<ErrorEvent("Model not loaded", "MODEL_NOT_READY")>>
                 /\ passes[s] = <<>>

\* One session failed the check before the engine was loaded; the other
\* passed it, load_model() was called again after that, and its final pass
\* has returned.
C38_Witness ==
    /\ ended["s1"] = "not_ready"
    /\ ended["s2"] = "stop" /\ Len(passes["s2"]) = 2
    /\ lcalls[1] = 2 /\ lpc[1] = "returned" /\ loadRuns[1] = 0

\* The load_model() call of caller c is under way, and is over.
LoadUnderWay(c) == lpc[c] \in {"waiting", "loading"}
LoadOver(c) == lpc[c] \in {"returned", "raised"}

\* C39: the lock of load_model() is never left held. It is held only by a
\* caller whose _load is running; provided every _load comes to an end, by
\* returning or by raising, every load_model() call returns or raises and no
\* caller waits for the lock forever; a _load that raises leaves the lock
\* free and the engine not loaded, and a call that gets the lock returns
\* without running _load only if the engine is loaded: on the engine left
\* unloaded it runs _load again.
C39_LockNeverLeftHeld ==
    /\ [](/\ lockHolder # NoHolder => lpc[lockHolder] = "loading"
          /\ \A c \in Callers : lpc[c] = "loading" => lockHolder = c)
    /\ [][\A c \in Callers :
            /\ (lpc[c] = "loading" /\ lpc'[c] = "raised")
                  => ~is_loaded' /\ lockHolder' = NoHolder
            /\ (lpc[c] # "loading" /\ lpc'[c] = "loading")
                  => ~is_loaded /\ loadRuns'[c] = 1 /\ lockHolder' = c
            /\ (/\ lcalls'[c] # lcalls[c] \/ lpc[c] = "waiting"
                /\ lpc'[c] = "returned")
                  => is_loaded /\ loadRuns'[c] = 0]_vars
    /\ \A c \in Callers : LoadUnderWay(c) ~> LoadOver(c)
    /\ (lockHolder # NoHolder) ~> (lockHolder = NoHolder)

\* One caller's _load has raised; another, which had been waiting for the
\* lock meanwhile, now holds it and runs _load again.
C39_Witness ==
    \E c, d \in Callers :
        /\ lpc[d] = "raised" /\ cause[d] = "OtherError"
        /\ lpc[c] = "loading" /\ observed[c] = "Loading" /\ loadRuns[c] = 1
        /\ lockHolder = c /\ ~is_loaded
====
